---------------------------- MODULE Spec2Model ----------------------------
(***************************************************************************)
(* MindCanvus: the friend-relationship handlers of routes/friends.js, the   *)
(* follow handlers of routes/users.js and the scheduled-post publisher of  *)
(* server.js, as state machines.                                           *)
(*                                                                         *)
(* A request handler and the cron callback take one step for each database *)
(* operation they await.  SpecFriends runs the friend handlers one request *)
(* at a time, SpecRace two at a time, SpecFollow one at a time alongside a *)
(* follow or unfollow.  SpecPub runs post creation, the clock and the      *)
(* publisher, a save of the publisher being allowed to fail.               *)
(***************************************************************************)
EXTENDS Integers, Sequences, FiniteSets, TLC

(* ----------------------------- bounds ---------------------------------- *)
\* number of user documents in the store
NUsers == 3
\* number of requests handled in one run of the friend handlers
MaxOps == 4
\* number of post documents that can be created
MaxPosts == 3
\* last instant of the clock
MaxTime == 3
\* messages stored
MaxMsgs == 2
\* requests of one browser in flight at the same time
MaxInFlight == 2
\* views counted on one post
MaxViews == 2
\* likes saved on one post or comment
MaxLikes == 3

(* ------------------------------ state ---------------------------------- *)
VARIABLES
  friends,         \* user id -> the user's friends array
  friendRequests,  \* user id -> the user's friendRequests array of {from, status}
  last,            \* the last friend request handled and its response
  repeated,        \* the last request repeats the one before it (same op, caller, id)
  dupStage,        \* progress of duplicate send (1), its cancel (2), the resend (3)
  nops,            \* number of friend requests handled so far
  posts,           \* the posts collection, in insertion order
  now,             \* the clock read by new Date()
  plast,           \* the last post operation and what it did
  pub,             \* publisher instance -> its position in the cron callback
  messages,        \* the messages collection, in insertion order
  mlast,           \* the last message request and its response
  pmeta,           \* post id -> author, views, likes, allowComments, exists
  comments,        \* the comments collection, in insertion order
  clast,           \* the last post or comment request and its response
  listed,          \* ids of the posts returned by the last listing request
  flisted,         \* the last listing of the friends router: caller and users returned
  client,          \* the browser: token, Authorization header, user, path, last check
  cversion,        \* comment id -> the version key (__v) of the stored comment
  version,         \* user id -> the version key (__v) of the stored user document
  following,       \* user id -> the user's following array
  followers,       \* user id -> the user's followers array
  running          \* handler slot -> the request being handled, await by await

fvars == <<friends, friendRequests, last, repeated, dupStage, nops>>
pvars == <<posts, now, plast>>
mvars == <<messages, mlast>>
cvars == <<pmeta, comments, clast, listed>>
\* what the clock never touches, besides the posts and the friend stores
xvars == <<pub, mvars, cvars, flisted, client, cversion,
          version, following, followers, running>>
\* what the cron callback never touches
yvars == <<fvars, mvars, cvars, flisted, client, cversion,
          version, following, followers, running>>
\* what the message routes never touch
zvars == <<fvars, pvars, pub, cvars, flisted, client, cversion,
          version, following, followers>>
\* what the post and comment routes never touch
wvars == <<fvars, pub, mvars, flisted, client,
          version, following, followers>>
\* what the listings of the friends router never touch
lvars == <<fvars, pvars, pub, mvars, cvars, client, cversion,
          version, following, followers>>
\* the stores of the server
svars == <<fvars, pvars, pub, mvars, cvars, flisted, cversion,
          version, following, followers, running>>
vars == <<friends, friendRequests, last, repeated, dupStage, nops,
          posts, now, plast, pub, messages, mlast, pmeta, comments, clast,
          listed, flisted, client, cversion, version, following, followers,
          running>>

\* ids of the user documents that exist
Users == 1..NUsers
\* an id no user document has
NoUser == 0
\* ids a request can carry in :userId
UserIds == Users \cup {NoUser}

(* ------------------------- array helpers ------------------------------- *)
\* Array.prototype.includes on an array of ids
Includes(arr, id) == \E i \in 1..Len(arr) : arr[i] = id

\* the elements of an array as a set
Elems(arr) == {arr[i] : i \in 1..Len(arr)}

\* friends.filter(id => id.toString() !== uid)
FilterOutId(arr, uid) ==
  LET keep(x) == x # uid IN SelectSeq(arr, keep)

\* friendRequests.filter(request => request.from.toString() !== uid)
FilterOutFrom(reqs, uid) ==
  LET keep(r) == r.from # uid IN SelectSeq(reqs, keep)

\* index of the entry friendRequests.find(request => request.from === uid)
\* returns, 0 when find returns undefined
FindFrom(reqs, uid) ==
  IF \E i \in 1..Len(reqs) : reqs[i].from = uid
  THEN CHOOSE i \in 1..Len(reqs) :
         /\ reqs[i].from = uid
         /\ \A j \in 1..(i - 1) : reqs[j].from # uid
  ELSE 0

\* reqs holds an entry {from: uid, status: pending}
PendingFrom(reqs, uid) ==
  \E i \in 1..Len(reqs) : reqs[i].from = uid /\ reqs[i].status = "pending"

\* a handler's outcome: the response and the stored documents after it
Outcome(code, message, f, r) ==
  [code |-> code, message |-> message, friends |-> f, friendRequests |-> r]

(* ---------------------- friend request handlers ------------------------ *)
\* SendRequest without the existing-request check
SendRequest_NoDuplicateCheck(f, r, me, uid) ==
  IF uid = me
  THEN Outcome(400, "You cannot send friend request to yourself", f, r)
  ELSE IF uid \notin Users
  THEN Outcome(404, "User not found", f, r)
  ELSE IF Includes(f[me], uid)
  THEN Outcome(400, "Already friends with this user", f, r)
  ELSE Outcome(200, "Friend request sent successfully", f,
               [r EXCEPT ![uid] = Append(@, [from |-> me, status |-> "pending"])])

\* POST /api/friends/request/:userId
SendRequest(f, r, me, uid) ==
  IF uid = me
  THEN Outcome(400, "You cannot send friend request to yourself", f, r)
  ELSE IF uid \notin Users
  THEN Outcome(404, "User not found", f, r)
  ELSE IF Includes(f[me], uid)
  THEN Outcome(400, "Already friends with this user", f, r)
  ELSE IF FindFrom(r[uid], me) # 0
  THEN Outcome(400, "Friend request already sent", f, r)
  ELSE Outcome(200, "Friend request sent successfully", f,
               [r EXCEPT ![uid] = Append(@, [from |-> me, status |-> "pending"])])

\* AcceptRequest without the check of the entry's status
AcceptRequest_NoStatusCheck(f, r, me, uid) ==
  IF uid \notin Users
  THEN Outcome(404, "User not found", f, r)
  ELSE LET k == FindFrom(r[me], uid) IN
    IF k = 0
    THEN Outcome(404, "Friend request not found", f, r)
    ELSE IF Includes(f[me], uid) \/ Includes(f[uid], me)
    THEN Outcome(400, "Users are already friends", f, r)
    ELSE Outcome(200, "Friend request accepted successfully",
                 [f EXCEPT ![me] = Append(@, uid), ![uid] = Append(@, me)],
                 [r EXCEPT ![me] = FilterOutFrom(@, uid)])

\* PUT /api/friends/accept/:userId
AcceptRequest(f, r, me, uid) ==
  IF uid \notin Users
  THEN Outcome(404, "User not found", f, r)
  ELSE LET k == FindFrom(r[me], uid) IN
    IF k = 0
    THEN Outcome(404, "Friend request not found", f, r)
    ELSE IF r[me][k].status # "pending"
    THEN Outcome(400, "Friend request already processed", f, r)
    ELSE IF Includes(f[me], uid) \/ Includes(f[uid], me)
    THEN Outcome(400, "Users are already friends", f, r)
    ELSE Outcome(200, "Friend request accepted successfully",
                 [f EXCEPT ![me] = Append(@, uid), ![uid] = Append(@, me)],
                 [r EXCEPT ![me] = FilterOutFrom(@, uid)])

\* PUT /api/friends/reject/:userId
RejectRequest(f, r, me, uid) ==
  LET k == FindFrom(r[me], uid) IN
    IF k = 0
    THEN Outcome(404, "Friend request not found", f, r)
    ELSE IF r[me][k].status # "pending"
    THEN Outcome(400, "Friend request already processed", f, r)
    ELSE Outcome(200, "Friend request rejected successfully", f,
                 [r EXCEPT ![me][k].status = "rejected"])

\* RemoveFriend that filters only the caller's friends
RemoveFriend_OneSided(f, r, me, uid) ==
  IF uid \notin Users
  THEN Outcome(404, "User not found", f, r)
  ELSE IF ~Includes(f[me], uid)
  THEN Outcome(400, "Not friends with this user", f, r)
  ELSE Outcome(200, "Friend removed successfully",
               [f EXCEPT ![me] = FilterOutId(@, uid)], r)

\* DELETE /api/friends/:userId
RemoveFriend(f, r, me, uid) ==
  IF uid \notin Users
  THEN Outcome(404, "User not found", f, r)
  ELSE IF ~Includes(f[me], uid)
  THEN Outcome(400, "Not friends with this user", f, r)
  ELSE Outcome(200, "Friend removed successfully",
               [f EXCEPT ![me] = FilterOutId(@, uid), ![uid] = FilterOutId(@, me)],
               r)

\* DELETE /api/friends/request/:userId
CancelRequest(f, r, me, uid) ==
  IF uid \notin Users
  THEN Outcome(404, "User not found", f, r)
  ELSE Outcome(200, "Friend request cancelled successfully", f,
               [r EXCEPT ![uid] = FilterOutFrom(@, me)])

(* ------------- friend requests, handled await by await ------------------ *)
\* requests the server handles at the same time
Slots == {"H1", "H2"}

\* the log entry before any request has been answered; n counts the answers
NoRequest ==
  [op |-> "init", me |-> NoUser, uid |-> NoUser, code |-> 0, message |-> "",
   n |-> 0]

\* a user document as findById returns it; null for an id of no user
NoDoc == [friends |-> <<>>, friendRequests |-> <<>>, following |-> <<>>,
          followers |-> <<>>, v |-> 0]

Doc(u) ==
  IF u \in Users
  THEN [friends |-> friends[u], friendRequests |-> friendRequests[u],
        following |-> following[u], followers |-> followers[u],
        v |-> version[u]]
  ELSE NoDoc

\* the outcome of a handler that has not made its checks yet
NoOutcome == [code |-> 0, message |-> "", friends |-> <<>>, friendRequests |-> <<>>]

\* no request in the slot. out: the response the checks chose and the arrays
\* as the handler changed them in memory; answered: the response has been
\* sent while a save is still on its way; threw: a save of the request has thrown; failed:
\* a save of some request of this slot has thrown; f0, r0: the stored arrays
\* when the request arrived
NoHandler == [pc |-> "idle", op |-> "none", me |-> NoUser, uid |-> NoUser,
              cur |-> NoDoc, oth |-> NoDoc, out |-> NoOutcome, todo |-> {},
              threw |-> FALSE, answered |-> FALSE, failed |-> FALSE,
              f0 |-> <<>>, r0 |-> <<>>]

\* a request of another route in flight, suspended at the await pc. id: the
\* :id or :userId of the request; arg: what else the request carries; doc:
\* what its reads have returned; at: the instant its new Date() has read
Work(pc, op, me, id, arg, doc, at) ==
  [pc |-> pc, op |-> op, me |-> me, id |-> id, arg |-> arg, doc |-> doc, at |-> at]

\* the friends arrays and the friendRequests arrays as handler h holds them
\* in the documents it has read: cur is req.user's, oth is :userId's
LocalFriends(h) ==
  [u \in Users |-> IF u = h.uid /\ h.op \in {"send", "cancel"} THEN h.oth.friends
                   ELSE IF u = h.me THEN h.cur.friends
                   ELSE IF u = h.uid THEN h.oth.friends ELSE <<>>]
LocalRequests(h) ==
  [u \in Users |-> IF u = h.uid /\ h.op \in {"send", "cancel"}
                   THEN h.oth.friendRequests
                   ELSE IF u = h.me THEN h.cur.friendRequests
                   ELSE IF u = h.uid THEN h.oth.friendRequests ELSE <<>>]

\* the checks of the handler and its changes to the documents in memory
Decide(h) ==
  IF h.op = "send" THEN SendRequest(LocalFriends(h), LocalRequests(h), h.me, h.uid)
  ELSE IF h.op = "accept"
  THEN AcceptRequest(LocalFriends(h), LocalRequests(h), h.me, h.uid)
  ELSE IF h.op = "reject"
  THEN RejectRequest(LocalFriends(h), LocalRequests(h), h.me, h.uid)
  ELSE IF h.op = "remove"
  THEN RemoveFriend(LocalFriends(h), LocalRequests(h), h.me, h.uid)
  ELSE CancelRequest(LocalFriends(h), LocalRequests(h), h.me, h.uid)

\* the user whose document is cur or oth, and the document as read
UserOf(h, which) == IF which = "cur" THEN h.me ELSE h.uid
LocalOf(h, which) == IF which = "cur" THEN h.cur ELSE h.oth

\* save() writes a document only when the handler changed a path of it
Modified(h, which) ==
  LET u == UserOf(h, which) IN
    /\ u \in Users
    /\ \/ h.out.friends[u] # LocalOf(h, which).friends
       \/ h.out.friendRequests[u] # LocalOf(h, which).friendRequests

\* the documents whose save() the handler awaits once its checks have
\* passed, modified or not
ToSave(h) ==
  IF h.op \in {"send", "cancel"} THEN {"oth"}
  ELSE IF h.op = "reject" THEN {"cur"}
  ELSE {"cur", "oth"}

\* the elements push() added to an array
Added(old, new) == SubSeq(new, Len(old) + 1, Len(new))

\* the stored friends of a user after the save: accept pushes, and the
\* push is added to the stored array; remove assigns the array, and the
\* save sets it as a whole
WriteFriends(h, which) ==
  LET u == UserOf(h, which)
      old == LocalOf(h, which).friends
      new == h.out.friends[u] IN
    IF new = old THEN friends[u]
    ELSE IF h.op = "accept" THEN friends[u] \o Added(old, new)
    ELSE new

\* the stored friendRequests of a user after the save: send pushes, reject
\* sets the status of one element in place, accept and cancel assign the
\* filtered array
WriteRequests(h, which) ==
  LET u == UserOf(h, which)
      old == LocalOf(h, which).friendRequests
      new == h.out.friendRequests[u] IN
    IF new = old THEN friendRequests[u]
    ELSE IF h.op = "send" THEN friendRequests[u] \o Added(old, new)
    ELSE IF h.op = "reject"
    THEN [i \in 1..Len(friendRequests[u]) |->
            IF i <= Len(old) /\ new[i] # old[i]
            THEN [friendRequests[u][i] EXCEPT !.status = new[i].status]
            ELSE friendRequests[u][i]]
    ELSE new

\* the save is refused unless the stored version is the one read: when it
\* sets an array or an element of one, not when it only pushes
ChecksVersion(h, which) ==
  ~(h.op = "send" \/ (h.op = "accept" /\ which = "oth"))

\* the save increments the version: when it pushes or sets an array, not
\* when it sets an element in place
IncrementsVersion(h) == h.op # "reject"

\* the response of handler h, and the log after it
Reply(h, code, message) ==
  /\ last' = [op |-> h.op, me |-> h.me, uid |-> h.uid,
              code |-> code, message |-> message, n |-> last.n + 1]
  /\ repeated' = (last.op = h.op /\ last.me = h.me /\ last.uid = h.uid)
  /\ dupStage' =
       IF /\ h.op = "send" /\ message = "Friend request already sent"
          /\ PendingFrom(friendRequests[h.uid], h.me) THEN 1
       ELSE IF /\ h.op = "cancel" /\ code = 200 /\ dupStage = 1
               /\ last.me = h.me /\ last.uid = h.uid THEN 2
       ELSE IF /\ h.op = "send" /\ dupStage = 2
               /\ last.me = h.me /\ last.uid = h.uid THEN 3
       ELSE 0

\* handler h has nothing more to do and leaves slot s
Release(s, h) ==
  running' = [running EXCEPT ![s] =
                [NoHandler EXCEPT !.failed = h.failed \/ h.threw]]

\* the handler answers and is over
Answer(s, h, code, message) == Reply(h, code, message) /\ Release(s, h)

\* the handler has read what it reads: a failed check answers, any other
\* handler goes on to the saves it awaits
Settle(s, h) ==
  LET g == [h EXCEPT !.out = Decide(h)] IN
    IF g.out.code # 200
    THEN Answer(s, g, g.out.code, g.out.message)
    ELSE /\ running' = [running EXCEPT ![s] =
                          [g EXCEPT !.pc = "save", !.todo = ToSave(g)]]
         /\ UNCHANGED <<last, repeated, dupStage>>

\* the slot a request takes when it arrives
FreeSlot == IF running["H1"].pc = "idle" THEN "H1" ELSE "H2"

\* a request arrives and runs to its first await: send answers at once for
\* the caller's own id, otherwise the first findById is made (the target's
\* for send and cancel, the caller's for the others); reject and cancel
\* read nothing more, and send ends with 404 when there is no target
Begin(s, op, me, uid) ==
  LET h == [NoHandler EXCEPT !.pc = "read2", !.op = op, !.me = me, !.uid = uid,
                             !.cur = IF op \in {"send", "cancel"} THEN NoDoc
                                     ELSE Doc(me),
                             !.oth = IF op \in {"send", "cancel"} THEN Doc(uid)
                                     ELSE NoDoc,
                             !.failed = running[s].failed,
                             !.f0 = friends, !.r0 = friendRequests] IN
    /\ running[s].pc = "idle"
    /\ s = FreeSlot
    /\ nops < MaxOps
    /\ nops' = nops + 1
    /\ IF \/ op \in {"reject", "cancel"}
          \/ (op = "send" /\ (uid = me \/ uid \notin Users))
       THEN Settle(s, h)
       ELSE /\ running' = [running EXCEPT ![s] = h]
            /\ UNCHANGED <<last, repeated, dupStage>>
    /\ UNCHANGED <<friends, friendRequests, version, following, followers,
                   pvars, pub, mvars, cvars, flisted, client, cversion>>

\* the second findById (the caller's for send, :userId's for accept and
\* remove) and the checks on the two documents
Read2(s) ==
  LET h == IF running[s].op = "send"
           THEN [running[s] EXCEPT !.cur = Doc(running[s].me)]
           ELSE [running[s] EXCEPT !.oth = Doc(running[s].uid)] IN
    /\ running[s].pc = "read2"
    /\ Settle(s, h)
    /\ UNCHANGED <<friends, friendRequests, version, following, followers, nops,
                   pvars, pub, mvars, cvars, flisted, client, cversion>>

\* one save() lands. The save of a document with no modified path writes
\* nothing and resolves. Remove saves the caller's document and then the
\* friend's, and a save that throws skips the one after it. Accept starts
\* both saves at once: Promise.all rejects with the first save that throws,
\* the catch answers 500 and the other save still lands. Without a throw
\* the handler answers after its last save
SaveDoc(s, which) ==
  LET h == running[s]
      u == UserOf(h, which)
      mod == Modified(h, which)
      ok == (mod /\ ChecksVersion(h, which)) => version[u] = LocalOf(h, which).v
      todo == IF ~ok /\ h.op = "remove" THEN {} ELSE h.todo \ {which}
      g == [h EXCEPT !.todo = todo, !.threw = h.threw \/ ~ok] IN
    /\ h.pc = "save"
    /\ which \in h.todo
    /\ (h.op = "remove" /\ which = "oth") => "cur" \notin h.todo
    /\ friends' = IF ok /\ mod
                  THEN [friends EXCEPT ![u] = WriteFriends(h, which)]
                  ELSE friends
    /\ friendRequests' = IF ok /\ mod
                         THEN [friendRequests EXCEPT ![u] = WriteRequests(h, which)]
                         ELSE friendRequests
    /\ version' = IF ok /\ mod /\ IncrementsVersion(h)
                  THEN [version EXCEPT ![u] = @ + 1] ELSE version
    /\ IF h.answered
       THEN /\ IF todo = {} THEN Release(s, g)
                ELSE running' = [running EXCEPT ![s] = g]
            /\ UNCHANGED <<last, repeated, dupStage>>
       ELSE IF ~ok
       THEN /\ Reply(g, 500, "Server error")
            /\ IF todo = {} THEN Release(s, g)
               ELSE running' = [running EXCEPT ![s] = [g EXCEPT !.answered = TRUE]]
       ELSE IF todo = {} THEN Answer(s, g, h.out.code, h.out.message)
       ELSE /\ running' = [running EXCEPT ![s] = g]
            /\ UNCHANGED <<last, repeated, dupStage>>
    /\ UNCHANGED <<nops, following, followers,
                   pvars, pub, mvars, cvars, flisted, client, cversion>>

\* currentUser.save()
SaveCur(s) == SaveDoc(s, "cur")

\* targetUser.save(), requestingUser.save(), friendUser.save()
SaveOth(s) == SaveDoc(s, "oth")

\* no request is being handled
Quiet == \A s \in Slots : running[s].pc = "idle"

\* a request that arrives takes slot s
Free(s) == running[s].pc = "idle" /\ s = FreeSlot

\* handler h stays in slot s, suspended at its next await
Hold(s, h) == running' = [running EXCEPT ![s] = h]

\* the handler in slot s has answered
Leave(s) == running' = [running EXCEPT ![s] = NoHandler]

\* the requests of route op in flight
InFlight(op) == Cardinality({s \in Slots : running[s].op = op})

\* The five routes take open: a request can arrive now. The server takes a
\* request whenever one comes (TRUE); handled one at a time, none arrives
\* while another is in flight (Quiet).

\* POST /api/friends/request/:userId
Send(open) == \E s \in Slots :
  \/ open /\ \E me \in Users, uid \in UserIds : Begin(s, "send", me, uid)
  \/ running[s].op = "send" /\ Read2(s)
  \/ running[s].op = "send" /\ SaveOth(s)

\* PUT /api/friends/accept/:userId
Accept(open) == \E s \in Slots :
  \/ open /\ \E me \in Users, uid \in UserIds : Begin(s, "accept", me, uid)
  \/ running[s].op = "accept" /\ Read2(s)
  \/ running[s].op = "accept" /\ SaveCur(s)
  \/ running[s].op = "accept" /\ SaveOth(s)

\* PUT /api/friends/reject/:userId
Reject(open) == \E s \in Slots :
  \/ open /\ \E me \in Users, uid \in UserIds : Begin(s, "reject", me, uid)
  \/ running[s].op = "reject" /\ SaveCur(s)

\* DELETE /api/friends/:userId
Remove(open) == \E s \in Slots :
  \/ open /\ \E me \in Users, uid \in UserIds : Begin(s, "remove", me, uid)
  \/ running[s].op = "remove" /\ Read2(s)
  \/ running[s].op = "remove" /\ SaveCur(s)
  \/ running[s].op = "remove" /\ SaveOth(s)

\* DELETE /api/friends/request/:userId
Cancel(open) == \E s \in Slots :
  \/ open /\ \E me \in Users, uid \in UserIds : Begin(s, "cancel", me, uid)
  \/ running[s].op = "cancel" /\ SaveOth(s)

(* --------------- follow and unfollow of routes/users.js ----------------- *)
\* The two routes save the same user documents as the friend routes, and
\* their saves move the same version key.

\* the array of the document a save of the follow routes changes, and the id
\* it adds or takes out: the caller's following and :userId, or :userId's
\* followers and the caller
FollowArray(doc, which) == IF which = "cur" THEN doc.following ELSE doc.followers
FollowId(h, which) == IF which = "cur" THEN h.uid ELSE h.me

\* the array as the handler leaves it in memory: follow pushes the id,
\* unfollow assigns the array filtered of it
FollowChange(h, which) ==
  IF h.op = "follow"
  THEN Append(FollowArray(LocalOf(h, which), which), FollowId(h, which))
  ELSE FilterOutId(FollowArray(LocalOf(h, which), which), FollowId(h, which))

\* POST or DELETE /api/users/:userId/follow arrives: follow answers at once
\* for the caller's own id; otherwise await User.findById(req.params.userId)
\* returns, and a missing user is answered
FollowBegin(s, op, me, uid) ==
  LET h == [NoHandler EXCEPT !.pc = "read2", !.op = op, !.me = me, !.uid = uid,
                             !.oth = Doc(uid), !.failed = running[s].failed,
                             !.f0 = friends, !.r0 = friendRequests] IN
    /\ Free(s)
    /\ nops < MaxOps
    /\ nops' = nops + 1
    /\ IF op = "follow" /\ uid = me
       THEN Answer(s, h, 400, "You cannot follow yourself")
       ELSE IF uid \notin Users
       THEN Answer(s, h, 404, "User not found")
       ELSE /\ Hold(s, h)
            /\ UNCHANGED <<last, repeated, dupStage>>
    /\ UNCHANGED <<friends, friendRequests, version, following, followers,
                   pvars, pub, mvars, cvars, flisted, client, cversion>>

\* await User.findById(req.user._id) returns and following.includes is
\* checked: follow of a user already followed and unfollow of a user not
\* followed are answered, any other request goes on to its two saves
FollowRead(s) ==
  LET h == [running[s] EXCEPT !.cur = Doc(running[s].me)]
      isFollowing == Includes(h.cur.following, h.uid) IN
    /\ running[s].pc = "read2"
    /\ IF h.op = "follow" /\ isFollowing
       THEN Answer(s, h, 400, "Already following this user")
       ELSE IF h.op = "unfollow" /\ ~isFollowing
       THEN Answer(s, h, 400, "Not following this user")
       ELSE /\ Hold(s, [h EXCEPT !.pc = "save", !.todo = {"cur", "oth"}])
            /\ UNCHANGED <<last, repeated, dupStage>>
    /\ UNCHANGED <<friends, friendRequests, version, following, followers, nops,
                   pvars, pub, mvars, cvars, flisted, client, cversion>>

\* await currentUser.save() or, after it, the save of :userId's document
\* returns. The push of follow is added to the stored array whatever its
\* version; the array unfollow assigns is written only onto the version that
\* was read, and the save that is refused throws to the catch, which answers
\* 500. A save with nothing to write resolves. Every save that writes
\* increments the version. The handler answers after the second save
FollowSave(s, which) ==
  LET h == running[s]
      u == UserOf(h, which)
      old == FollowArray(LocalOf(h, which), which)
      new == FollowChange(h, which)
      mod == new # old
      ok == (mod /\ h.op = "unfollow") => version[u] = LocalOf(h, which).v
      stored == IF which = "cur" THEN following[u] ELSE followers[u]
      written == IF ~(ok /\ mod) THEN stored
                 ELSE IF h.op = "follow" THEN stored \o Added(old, new)
                 ELSE new
      g == [h EXCEPT !.todo = IF ok THEN h.todo \ {which} ELSE {},
                     !.threw = ~ok] IN
    /\ h.pc = "save"
    /\ which \in h.todo
    /\ which = "oth" => "cur" \notin h.todo
    /\ following' = IF which = "cur" THEN [following EXCEPT ![u] = written]
                    ELSE following
    /\ followers' = IF which = "oth" THEN [followers EXCEPT ![u] = written]
                    ELSE followers
    /\ version' = IF ok /\ mod THEN [version EXCEPT ![u] = @ + 1] ELSE version
    /\ IF ~ok THEN Answer(s, g, 500, "Server error")
       ELSE IF g.todo = {}
       THEN Answer(s, g, 200, IF h.op = "follow" THEN "User followed successfully"
                              ELSE "User unfollowed successfully")
       ELSE /\ Hold(s, g)
            /\ UNCHANGED <<last, repeated, dupStage>>
    /\ UNCHANGED <<friends, friendRequests, nops,
                   pvars, pub, mvars, cvars, flisted, client, cversion>>

\* POST /api/users/:userId/follow, with a caller and a :userId of requests
Follow(open, requests) == \E s \in Slots :
  \/ open /\ \E q \in requests : FollowBegin(s, "follow", q[1], q[2])
  \/ running[s].op = "follow" /\ FollowRead(s)
  \/ running[s].op = "follow" /\ FollowSave(s, "cur")
  \/ running[s].op = "follow" /\ FollowSave(s, "oth")

\* DELETE /api/users/:userId/follow
Unfollow(open, requests) == \E s \in Slots :
  \/ open /\ \E q \in requests : FollowBegin(s, "unfollow", q[1], q[2])
  \/ running[s].op = "unfollow" /\ FollowRead(s)
  \/ running[s].op = "unfollow" /\ FollowSave(s, "cur")
  \/ running[s].op = "unfollow" /\ FollowSave(s, "oth")

\* no request of the friends router, and none of the two follow routes, is
\* being handled
NoFriendRoute ==
  InFlight("send") + InFlight("accept") + InFlight("reject")
  + InFlight("remove") + InFlight("cancel") = 0
NoFollowRoute == InFlight("follow") + InFlight("unfollow") = 0

(* ----------------------- listings of the friends router ---------------- *)
NoListing == [op |-> "init", me |-> NoUser, users |-> {}]

\* User.find({'friendRequests.from': me, 'friendRequests.status': 'pending'}):
\* each condition is matched by some element of the array, not necessarily
\* by the same one
SentRequestsQuery(r, me) ==
  {u \in Users :
     /\ \E i \in 1..Len(r[u]) : r[u][i].from = me
     /\ \E j \in 1..Len(r[u]) : r[u][j].status = "pending"}

\* a suggestions query that leaves out users with a pending request from or
\* to the caller; fs: currentUser.friends
SuggestionsQuery_ExcludesPending(fs, r, me) ==
  {u \in Users : /\ u # me /\ ~Includes(fs, u)
                 /\ ~PendingFrom(r[u], me) /\ ~PendingFrom(r[me], u)}

\* User.find({_id: {$ne: me, $nin: currentUser.friends}})
SuggestionsQuery(fs, r, me) ==
  {u \in Users : u # me /\ ~Includes(fs, u)}

\* GET /api/friends/requests/sent arrives and its User.find is answered
SentFind(s, me) ==
  /\ running[s].pc = "idle"
  /\ s = FreeSlot
  /\ running' = [running EXCEPT ![s] =
                   Work("count", "sent", me, NoUser, <<>>,
                        SentRequestsQuery(friendRequests, me), 0)]
  /\ UNCHANGED <<flisted, lvars>>

\* GET /api/friends/suggestions arrives and its User.findById(req.user._id)
\* is answered
SuggestRead(s, me) ==
  /\ running[s].pc = "idle"
  /\ s = FreeSlot
  /\ running' = [running EXCEPT ![s] =
                   Work("find", "suggestions", me, NoUser, <<>>, friends[me], 0)]
  /\ UNCHANGED <<flisted, lvars>>

\* the User.find of the suggestions is answered, $nin being the friends
\* array that was read
SuggestFind(s) ==
  LET h == running[s] IN
    /\ h.pc = "find"
    /\ running' = [running EXCEPT ![s] =
                     [h EXCEPT !.pc = "count",
                               !.doc = SuggestionsQuery(h.doc, friendRequests, h.me)]]
    /\ UNCHANGED <<flisted, lvars>>

\* User.countDocuments is answered and the listing is sent
ListCount(s) ==
  LET h == running[s] IN
    /\ h.pc = "count"
    /\ flisted' = [op |-> h.op, me |-> h.me, users |-> h.doc]
    /\ running' = [running EXCEPT ![s] = NoHandler]
    /\ UNCHANGED lvars

\* GET /api/friends/requests/sent
ListSent(open) == \E s \in Slots :
  \/ open /\ \E me \in Users : SentFind(s, me)
  \/ running[s].op = "sent" /\ ListCount(s)

\* GET /api/friends/suggestions
ListSuggestions(open) == \E s \in Slots :
  \/ open /\ \E me \in Users : SuggestRead(s, me)
  \/ running[s].op = "suggestions" /\ SuggestFind(s)
  \/ running[s].op = "suggestions" /\ ListCount(s)

(* ------------------------------ the client ----------------------------- *)
\* what a request of the client can end with: an HTTP status, or 0 when no
\* response arrives
Statuses == {200, 401, 403, 500, 0}

\* window.location.pathname, as far as the interceptor tells paths apart
Paths == {"/login", "/app"}

\* the requests the AuthContext sends through api.js
Kinds == {"me", "refresh", "login", "register", "profile", "password"}

\* no request of the browser is in flight
NoRequests == [k \in Kinds |-> 0]

\* the browser before any login. timer: the hourly interval of the mounted
\* page is set; flying: the requests in flight, by kind; leaving:
\* window.location.href has been assigned and the browser has not replaced
\* the page yet; op, me and refresh: the last thing that happened and the
\* statuses of the last check
LoggedOut == [token |-> "none", header |-> "none", user |-> "none",
              path |-> "/app", op |-> "init", me |-> 0, refresh |-> 0,
              timer |-> FALSE, flying |-> NoRequests, leaving |-> FALSE]

\* the number of requests of browser c in flight
Waiting(c) ==
  c.flying["me"] + c.flying["refresh"] + c.flying["login"]
  + c.flying["register"] + c.flying["profile"] + c.flying["password"]

\* a request of kind k is sent; its response arrives
Sent(c, k) == [c EXCEPT !.flying[k] = @ + 1]
Ended(c, k) == [c EXCEPT !.flying[k] = @ - 1]

\* the response interceptor of api.js for a failed request: on 401 away
\* from the login page it removes the token and the header and assigns
\* window.location.href. The page stays as it is until the browser replaces
\* it: its user, its path, its timer and its requests in flight are kept
Interceptor(c, status) ==
  IF status = 401 /\ c.path # "/login"
  THEN [c EXCEPT !.token = "none", !.header = "none", !.leaving = TRUE]
  ELSE c

\* the effect of the AuthProvider when a page is loaded at path: with a
\* token stored it sets the header, calls checkAuthStatus and sets the hourly
\* timer. Nothing of the page before it is left but the stored token
Mount(c, path) ==
  [c EXCEPT !.header = c.token, !.user = "none", !.path = path,
            !.timer = (c.token # "none"), !.leaving = FALSE,
            !.flying = IF c.token # "none" THEN [NoRequests EXCEPT !["me"] = 1]
                       ELSE NoRequests,
            !.op = "load"]

\* checkAuthStatus when GET /api/auth/me has ended with me: setUser and the
\* refresh request, or the interceptor and the outer catch
AfterMe(c, me) ==
  IF me = 200
  THEN [Sent(c, "refresh") EXCEPT !.user = "u", !.op = "me", !.me = 200]
  ELSE LET c1 == Interceptor(c, me)
           c2 == IF me = 401
                 THEN [c1 EXCEPT !.token = "none", !.header = "none", !.user = "none"]
                 ELSE c1 IN
       [c2 EXCEPT !.op = "check", !.me = me, !.refresh = 0]

\* checkAuthStatus when POST /api/auth/refresh has ended with refresh, after
\* a /me that succeeded; hasToken: the 200 carries a token
AfterRefresh(c, refresh, hasToken) ==
  LET c1 == IF refresh = 200
            THEN IF hasToken
                 THEN [c EXCEPT !.token = "refreshed", !.header = "refreshed"]
                 ELSE c
            ELSE Interceptor(c, refresh) IN
    [c1 EXCEPT !.op = "check", !.me = 200, !.refresh = refresh]

\* login() or register() when its request has ended with status: with 200
\* the token is stored, the header and the user are set and the page is
\* left; a failure goes through the interceptor
AfterLogin(c, status, op) ==
  IF status = 200
  THEN [c EXCEPT !.token = "issued", !.header = "issued", !.user = "u",
                 !.path = "/app", !.op = op]
  ELSE [Interceptor(c, status) EXCEPT !.op = "failed"]

\* updateProfile() when PUT /api/auth/profile has ended with status: setUser
\* with the user of the response, or the interceptor
AfterProfile(c, status) ==
  IF status = 200 THEN [c EXCEPT !.user = "u", !.op = "profile"]
  ELSE [Interceptor(c, status) EXCEPT !.op = "failed"]

\* a function of the AuthContext sends its request of kind k
Request(k) ==
  /\ Waiting(client) < MaxInFlight
  /\ client' = [Sent(client, k) EXCEPT !.op = "sent"]
  /\ UNCHANGED svars

\* login() sends POST /api/auth/login
LoginSend == Request("login")

\* await api.post('/api/auth/login') ends
LoginDone == \E status \in Statuses :
  /\ client.flying["login"] > 0
  /\ client' = AfterLogin(Ended(client, "login"), status, "login")
  /\ UNCHANGED svars

\* login(); open: the user can act now
Login(open) == (open /\ LoginSend) \/ LoginDone

\* register() sends POST /api/auth/register
RegisterSend == Request("register")

\* await api.post('/api/auth/register') ends
RegisterDone == \E status \in Statuses :
  /\ client.flying["register"] > 0
  /\ client' = AfterLogin(Ended(client, "register"), status, "register")
  /\ UNCHANGED svars

\* register()
Register(open) == (open /\ RegisterSend) \/ RegisterDone

\* updateProfile() sends PUT /api/auth/profile
ProfileSend == Request("profile")

\* await api.put('/api/auth/profile') ends
ProfileDone == \E status \in Statuses :
  /\ client.flying["profile"] > 0
  /\ client' = AfterProfile(Ended(client, "profile"), status)
  /\ UNCHANGED svars

\* updateProfile()
UpdateProfile(open) == (open /\ ProfileSend) \/ ProfileDone

\* changePassword() sends PUT /api/auth/password
PasswordSend == Request("password")

\* await api.put('/api/auth/password') ends: nothing of the session is set,
\* and a failure goes through the interceptor
PasswordDone == \E status \in Statuses :
  /\ client.flying["password"] > 0
  /\ client' = IF status = 200 THEN [Ended(client, "password") EXCEPT !.op = "password"]
               ELSE [Interceptor(Ended(client, "password"), status)
                       EXCEPT !.op = "failed"]
  /\ UNCHANGED svars

\* changePassword()
ChangePassword(open) == (open /\ PasswordSend) \/ PasswordDone

\* logout()
Logout(open) ==
  /\ open
  /\ client' = [client EXCEPT !.token = "none", !.header = "none", !.user = "none",
                              !.path = "/app", !.op = "logout"]
  /\ UNCHANGED svars

\* the user opens another page of the application that is loaded
Navigate(open) == \E path \in Paths :
  /\ open
  /\ client' = [client EXCEPT !.path = path, !.op = "navigate"]
  /\ UNCHANGED svars

\* the user loads the application, or loads it again, at a path; a load
\* that the interceptor has started is replaced by this one
Load(open) == \E path \in Paths :
  /\ open
  /\ client' = Mount(client, path)
  /\ UNCHANGED svars

\* the browser replaces the page with /login after the interceptor has
\* assigned window.location.href: the requests of the page that is left are
\* dropped and the AuthProvider of the new page runs with the token that is
\* stored by then
Unload ==
  /\ client.leaving
  /\ client' = Mount(client, "/login")
  /\ UNCHANGED svars

\* the hourly timer of the mounted page calls checkAuthStatus, which sends
\* GET /api/auth/me
CheckSend ==
  /\ client.timer
  /\ Request("me")

\* await api.get('/api/auth/me') ends
CheckMe == \E me \in Statuses :
  /\ client.flying["me"] > 0
  /\ client' = AfterMe(Ended(client, "me"), me)
  /\ UNCHANGED svars

\* await api.post('/api/auth/refresh') ends
CheckRefresh == \E refresh \in Statuses, hasToken \in BOOLEAN :
  /\ client.flying["refresh"] > 0
  /\ client' = AfterRefresh(Ended(client, "refresh"), refresh, hasToken)
  /\ UNCHANGED svars

\* the session check; open: the timer can fire now
CheckAuth(open) == (open /\ CheckSend) \/ CheckMe \/ CheckRefresh

(* ------------------------------ posts ---------------------------------- *)
\* a date field that is not set
NoDate == 0
\* the instants a date can hold
Times == 1..MaxTime
\* a status field absent from the request body
Absent == ""

\* POST /api/posts: the scheduled-post validation and Post.create
CreatePost(ps, status, scheduledFor) ==
  IF status = "scheduled" /\ scheduledFor = NoDate
  THEN [code |-> 400, posts |-> ps]
  ELSE [code |-> 201,
        posts |-> Append(ps,
          [status |-> IF status = Absent THEN "draft" ELSE status,
           scheduledFor |-> scheduledFor,
           publishedAt |-> NoDate])]

\* Post.getScheduledPostsToPublish(): the ids of the posts with
\* status=scheduled and scheduledFor <= now, in the order of the collection
RECURSIVE GetScheduledPostsToPublish(_, _, _)
GetScheduledPostsToPublish(ps, t, from) ==
  IF from > Len(ps) THEN <<>>
  ELSE IF /\ ps[from].status = "scheduled"
          /\ ps[from].scheduledFor # NoDate
          /\ ps[from].scheduledFor <= t
       THEN <<from>> \o GetScheduledPostsToPublish(ps, t, from + 1)
       ELSE GetScheduledPostsToPublish(ps, t, from + 1)

\* the body of the for loop: post.status, post.publishedAt, post.save()
PublishOne(ps, id, t) ==
  [ps EXCEPT ![id].status = "published", ![id].publishedAt = t]

(* ---------------------------- post actions ----------------------------- *)
\* the log before anything has happened to the posts. failed: the post whose
\* save threw; saved: the post whose save succeeded; from: the instant at
\* which the callback that took the step was called; at: the instant of the
\* step
NoPostOp == [op |-> "init", code |-> 0, failed |-> 0, saved |-> 0, from |-> 0,
             at |-> 0]

\* a minute passes
AdvanceTime ==
  /\ now < MaxTime
  /\ now' = now + 1
  /\ plast' = [NoPostOp EXCEPT !.op = "clock", !.at = now + 1]
  /\ UNCHANGED <<posts, fvars, xvars>>

(* ------------------- the cron callback, step by step -------------------- *)
\* the server processes running the cron callback against one store
Instances == {"A", "B"}

\* an instance outside the callback. at: the instant new Date() gave the
\* filter of the query when the callback called the static; start: the
\* collection at that call. In the loop: selected, the ids the query
\* returned; i, the position of the loop; stamp, the instant new Date() gave
\* for the post of this iteration
Idle == [pc |-> "idle", selected |-> <<>>, i |-> 0, start |-> <<>>, at |-> 0,
         stamp |-> 0]

\* PublishStep that takes a post whose save threw out of the schedule
PublishStep_DropsFailed(ps, id, t, ok) ==
  IF ok THEN PublishOne(ps, id, t) ELSE [ps EXCEPT ![id].status = "draft"]

\* one iteration of the loop, await post.save() included: the save writes
\* status and publishedAt, or it throws and nothing of the post is written
PublishStep(ps, id, t, ok) ==
  IF ok THEN PublishOne(ps, id, t) ELSE ps

\* the timer fires and the callback calls Post.getScheduledPostsToPublish():
\* the static builds the filter scheduledFor <= new Date() and sends the
\* query, which the callback awaits
TickStart(p) ==
  /\ pub[p].pc = "idle"
  /\ pub' = [pub EXCEPT ![p] = [Idle EXCEPT !.pc = "query", !.at = now,
                                            !.start = posts]]
  /\ plast' = [NoPostOp EXCEPT !.op = "call", !.from = now, !.at = now]
  /\ UNCHANGED <<posts, now, yvars>>

\* TickQuery whose filter holds the instant of the answer
TickQuery_FilterAtAnswer(p) ==
  LET selected == GetScheduledPostsToPublish(posts, now, 1) IN
    /\ pub[p].pc = "query"
    /\ pub' = [pub EXCEPT ![p] =
                 IF Len(selected) = 0 THEN Idle
                 ELSE [pub[p] EXCEPT !.pc = "loop", !.selected = selected, !.i = 1,
                                     !.stamp = now]]
    /\ plast' = [NoPostOp EXCEPT !.op = IF Len(selected) = 0 THEN "tick" ELSE "query",
                                 !.from = pub[p].at, !.at = now]
    /\ UNCHANGED <<posts, now, yvars>>

\* the query is answered, with the posts that are scheduled in the store
\* now for an instant up to the one of the filter. With no post selected the
\* loop has nothing to do and the callback is over. With posts selected the
\* first iteration sets status and publishedAt = new Date() on the first
\* document and sends its save
TickQuery(p) ==
  LET selected == GetScheduledPostsToPublish(posts, pub[p].at, 1) IN
    /\ pub[p].pc = "query"
    /\ pub' = [pub EXCEPT ![p] =
                 IF Len(selected) = 0 THEN Idle
                 ELSE [pub[p] EXCEPT !.pc = "loop", !.selected = selected, !.i = 1,
                                     !.stamp = now]]
    /\ plast' = [NoPostOp EXCEPT !.op = IF Len(selected) = 0 THEN "tick" ELSE "query",
                                 !.from = pub[p].at, !.at = now]
    /\ UNCHANGED <<posts, now, yvars>>

\* await post.save() of the iteration returns; ok: the save succeeded, and
\* it wrote the status and the publishedAt set before it was sent. The save
\* of a post that has been deleted throws. A save that throws leaves the
\* loop for the catch. After a save that succeeded the next iteration sets
\* publishedAt = new Date() on the next document and sends its save, and
\* after the last post the callback is over
TickSaveWith(p, ok) ==
  LET id == pub[p].selected[pub[p].i]
      over == ~ok \/ pub[p].i = Len(pub[p].selected) IN
    /\ pub[p].pc = "loop"
    /\ ok => pmeta[id].exists
    /\ posts' = PublishStep(posts, id, pub[p].stamp, ok)
    /\ pub' = [pub EXCEPT ![p] = IF over THEN Idle
                                 ELSE [pub[p] EXCEPT !.i = pub[p].i + 1,
                                                     !.stamp = now]]
    /\ plast' = [NoPostOp EXCEPT !.op = IF over THEN "tick" ELSE "save",
                                 !.failed = IF ok THEN 0 ELSE id,
                                 !.saved = IF ok THEN id ELSE 0,
                                 !.from = pub[p].at, !.at = now]
    /\ UNCHANGED <<now, yvars>>

TickSave(p) == \E ok \in BOOLEAN : TickSaveWith(p, ok)

\* the callbacks of the publisher processes: called, answered, saving
Start == \E p \in Instances : TickStart(p)
Query == \E p \in Instances : TickQuery(p)
Save == \E p \in Instances : TickSave(p)

\* the callback of one publisher process
StartA == TickStart("A")
QueryA == TickQuery("A")
SaveA == TickSave("A")

(* ------------------------------ messages ------------------------------- *)
\* the longest content the validators and the schema accept
MaxContent == 2000

Space == " "

\* String.prototype.trim, on a string as the sequence of its characters
RECURSIVE TrimStart(_)
TrimStart(str) ==
  IF str # <<>> /\ Head(str) = Space THEN TrimStart(Tail(str)) ELSE str

RECURSIVE TrimEnd(_)
TrimEnd(str) ==
  IF str # <<>> /\ str[Len(str)] = Space
  THEN TrimEnd(SubSeq(str, 1, Len(str) - 1)) ELSE str

Trim(str) == TrimEnd(TrimStart(str))

\* the contents a request body carries: none, blanks, text, text between
\* blanks, text longer than MaxContent
Contents ==
  {<<>>, <<" ">>, <<"a">>, <<" ", "a", " ">>, [i \in 1..(MaxContent + 1) |-> "a"]}

\* body('content').notEmpty().trim().isLength({max: 2000}): notEmpty sees
\* the value as sent, isLength the trimmed one
ValidContent(str) == str # <<>> /\ Len(Trim(str)) <= MaxContent

\* req.user.friends.some(friend => friend.toString() === userId)
IsFriend(fs, uid) == Includes(fs, uid)

\* a response of the messages router and the collection after it
MsgOutcome(code, ms) == [code |-> code, messages |-> ms]

\* POST /api/messages/:userId ; fs: the friends array of req.user as protect
\* loaded it; content: the content of the body. The validators leave the
\* trimmed content in the body, and Message.create refuses an empty one
\* (required), which the catch answers with 500
SendMessage(fs, ms, me, uid, content) ==
  IF ~ValidContent(content) THEN MsgOutcome(400, ms)
  ELSE IF uid \notin Users THEN MsgOutcome(404, ms)
  ELSE IF ~IsFriend(fs, uid) THEN MsgOutcome(403, ms)
  ELSE IF Trim(content) = <<>> THEN MsgOutcome(500, ms)
  ELSE MsgOutcome(201, Append(ms, [sender |-> me, recipient |-> uid,
                                   content |-> Trim(content),
                                   read |-> FALSE, readAt |-> NoDate]))

\* MarkRead that ignores the read flag of the messages it matches
MarkRead_IgnoresReadFlag(ms, me, uid, t) ==
  [i \in 1..Len(ms) |->
     IF ms[i].sender = uid /\ ms[i].recipient = me
     THEN [ms[i] EXCEPT !.read = TRUE, !.readAt = t]
     ELSE ms[i]]

\* PUT /api/messages/:userId/read : Message.updateMany(filter, update)
MarkRead(ms, me, uid, t) ==
  [i \in 1..Len(ms) |->
     IF ms[i].sender = uid /\ ms[i].recipient = me /\ ms[i].read = FALSE
     THEN [ms[i] EXCEPT !.read = TRUE, !.readAt = t]
     ELSE ms[i]]

\* Message.getConversation(me, uid): the messages between the two users
GetConversation(ms, me, uid) ==
  {i \in 1..Len(ms) : \/ ms[i].sender = me /\ ms[i].recipient = uid
                      \/ ms[i].sender = uid /\ ms[i].recipient = me}

\* messages.filter(message => !message.read && message.recipient is me)
Unread(ms, found, me) == {i \in found : ~ms[i].read /\ ms[i].recipient = me}

NoMessage == [op |-> "init", me |-> NoUser, uid |-> NoUser, code |-> 0, at |-> 0]

\* a response of the messages router; at: the instant the request stamped
Said(op, me, uid, code, at) ==
  [op |-> op, me |-> me, uid |-> uid, code |-> code, at |-> at]

\* POST /api/messages/:userId arrives and protect has loaded req.user; a
\* body the validators refuse is answered with 400
MsgArrive(s, me, uid, content) ==
  /\ Free(s)
  /\ Len(messages) + InFlight("message") < MaxMsgs
  /\ IF ValidContent(content)
     THEN /\ Hold(s, Work("find", "message", me, uid, content, friends[me], 0))
          /\ mlast' = mlast
     ELSE /\ mlast' = Said("send", me, uid, 400, 0)
          /\ running' = running
  /\ UNCHANGED <<messages, zvars>>

\* await User.findById(userId) returns: 404 without a recipient, 403 when
\* req.user.friends does not hold the recipient; then Message.create, which
\* refuses an empty content before anything is sent to the database
MsgFind(s) ==
  LET h == running[s]
      out == SendMessage(h.doc, messages, h.me, h.id, h.arg) IN
    /\ h.pc = "find"
    /\ IF out.code = 201
       THEN /\ Hold(s, [h EXCEPT !.pc = "create"])
            /\ mlast' = mlast
       ELSE /\ mlast' = Said("send", h.me, h.id, out.code, 0)
            /\ Leave(s)
    /\ UNCHANGED <<messages, zvars>>

\* await Message.create({sender, recipient, content}) returns
MsgCreate(s) ==
  LET h == running[s] IN
    /\ h.pc = "create"
    /\ messages' = SendMessage(h.doc, messages, h.me, h.id, h.arg).messages
    /\ Hold(s, [h EXCEPT !.pc = "sender"])
    /\ UNCHANGED <<mlast, zvars>>

\* await message.populate('sender') returns, then await
\* message.populate('recipient'), and the 201 is sent
MsgPopulate(s) ==
  LET h == running[s] IN
    /\ h.pc \in {"sender", "recipient"}
    /\ IF h.pc = "sender"
       THEN /\ Hold(s, [h EXCEPT !.pc = "recipient"])
            /\ mlast' = mlast
       ELSE /\ mlast' = Said("send", h.me, h.id, 201, 0)
            /\ Leave(s)
    /\ UNCHANGED <<messages, zvars>>

\* POST /api/messages/:userId ; requests: the callers and the users they
\* name; contents: the contents they send
MessageSend(open, requests, contents) == \E s \in Slots :
  \/ open /\ \E rq \in requests, content \in contents :
       MsgArrive(s, rq[1], rq[2], content)
  \/ running[s].op = "message" /\ MsgFind(s)
  \/ running[s].op = "message" /\ MsgCreate(s)
  \/ running[s].op = "message" /\ MsgPopulate(s)

\* a message with a text to one of the sender's friends
MessageToFriend(open) == \E s \in Slots :
  \/ open /\ \E me \in Users : \E uid \in Elems(friends[me]) :
       MsgArrive(s, me, uid, <<"a">>)
  \/ running[s].op = "message" /\ MsgFind(s)
  \/ running[s].op = "message" /\ MsgCreate(s)
  \/ running[s].op = "message" /\ MsgPopulate(s)

\* PUT /api/messages/:userId/read arrives and protect has loaded req.user:
\* the update is built, readAt: new Date() with it, and updateMany is sent
ReadSend(s, me, uid) ==
  /\ Free(s)
  /\ Hold(s, Work("update", "read", me, uid, <<>>, <<>>, now))
  /\ UNCHANGED <<messages, mlast, zvars>>

\* await Message.updateMany returns and the 200 is sent
ReadLand(s) ==
  LET h == running[s] IN
    /\ h.pc = "update"
    /\ messages' = MarkRead(messages, h.me, h.id, h.at)
    /\ mlast' = Said("read", h.me, h.id, 200, h.at)
    /\ Leave(s)
    /\ UNCHANGED zvars

\* PUT /api/messages/:userId/read ; requests: the callers and the users
\* they name
MarkAsRead(open, requests) == \E s \in Slots :
  \/ open /\ \E rq \in requests : ReadSend(s, rq[1], rq[2])
  \/ running[s].op = "read" /\ ReadLand(s)

\* GET /api/messages/:userId arrives and await User.findById(userId)
\* returns: 404 without the user
ConvBegin(s, me, uid) ==
  /\ Free(s)
  /\ IF uid \in Users
     THEN /\ Hold(s, Work("find", "conversation", me, uid, <<>>, {}, 0))
          /\ mlast' = mlast
     ELSE /\ mlast' = Said("conversation", me, uid, 404, 0)
          /\ running' = running
  /\ UNCHANGED <<messages, zvars>>

\* await Message.getConversation returns (one page: the collection is
\* smaller than the limit of 20). message.markAsRead() is called on each
\* unread message to the caller: read = true, readAt = new Date(), and a
\* save is sent for each; without one the count is sent
ConvFind(s) ==
  LET h == running[s]
      unread == Unread(messages, GetConversation(messages, h.me, h.id), h.me) IN
    /\ h.pc = "find"
    /\ Hold(s, [h EXCEPT !.pc = IF unread = {} THEN "count" ELSE "mark",
                         !.doc = unread, !.at = now])
    /\ UNCHANGED <<messages, mlast, zvars>>

\* the save() of messageSchema.methods.markAsRead for message i returns:
\* read and readAt, the paths set on the document, are written. After the
\* last of them Promise.all is over and the count is sent
ConvMark(s, i) ==
  LET h == running[s] IN
    /\ h.pc = "mark"
    /\ i \in h.doc
    /\ messages' = [messages EXCEPT ![i].read = TRUE, ![i].readAt = h.at]
    /\ Hold(s, [h EXCEPT !.doc = h.doc \ {i},
                         !.pc = IF h.doc = {i} THEN "count" ELSE "mark"])
    /\ UNCHANGED <<mlast, zvars>>

\* await Message.countDocuments returns and the conversation is sent
ConvCount(s) ==
  LET h == running[s] IN
    /\ h.pc = "count"
    /\ mlast' = Said("conversation", h.me, h.id, 200, h.at)
    /\ Leave(s)
    /\ UNCHANGED <<messages, zvars>>

\* GET /api/messages/:userId ; requests: the callers and the users they
\* name
Conversation(open, requests) == \E s \in Slots :
  \/ open /\ \E rq \in requests : ConvBegin(s, rq[1], rq[2])
  \/ running[s].op = "conversation" /\ ConvFind(s)
  \/ running[s].op = "conversation" /\ \E i \in 1..MaxMsgs : ConvMark(s, i)
  \/ running[s].op = "conversation" /\ ConvCount(s)

(* ------------------------- posts and comments --------------------------- *)
\* ids a request can carry for a post or a comment
Ids == 1..MaxPosts

\* the status values and the scheduledFor values a body of POST /api/posts
\* can carry
PostStatuses == {Absent, "draft", "published", "scheduled"}
Dates == {NoDate} \cup Times

NoContent == [op |-> "init", me |-> NoUser, id |-> 0, code |-> 0,
              isLiked |-> FALSE, likesCount |-> 0, before |-> <<>>]

\* a post or comment response without like fields
Plain(op, me, id, code) ==
  [op |-> op, me |-> me, id |-> id, code |-> code,
   isLiked |-> FALSE, likesCount |-> 0, before |-> <<>>]

\* Post.findById(id) finds a document
PostExists(id) == id \in 1..Len(pmeta) /\ pmeta[id].exists

\* Comment.findById(id) finds a document
CommentExists(id) == id \in 1..Len(comments) /\ comments[id].exists

\* likes.findIndex(like => like.user.toString() === userId.toString()),
\* counted from 1, 0 when there is none
FindLike(likes, user) ==
  IF Includes(likes, user)
  THEN CHOOSE i \in 1..Len(likes) :
         likes[i] = user /\ \A j \in 1..(i - 1) : likes[j] # user
  ELSE 0

\* toggleLike that pushes without looking for an earlier like
ToggleLike_AlwaysPush(likes, user) ==
  [likes |-> Append(likes, user), isLiked |-> TRUE]

\* commentSchema.methods.toggleLike
ToggleLike(likes, user) ==
  LET k == FindLike(likes, user) IN
    IF k # 0
    THEN [likes |-> SubSeq(likes, 1, k - 1) \o SubSeq(likes, k + 1, Len(likes)),
          isLiked |-> FALSE]
    ELSE [likes |-> Append(likes, user), isLiked |-> TRUE]

\* postSchema.methods.toggleLike: flips the user's membership of likes
PostToggleLike(likes, user) ==
  IF Includes(likes, user)
  THEN [likes |-> FilterOutId(likes, user), isLiked |-> FALSE]
  ELSE [likes |-> Append(likes, user), isLiked |-> TRUE]

\* what Post.create stores of a post besides status and dates; v is the
\* version key of the document
NewPost(me) == [author |-> me, views |-> 0, likes |-> <<>>,
                allowComments |-> TRUE, exists |-> TRUE, v |-> 0]

\* POST /api/posts arrives, protect has loaded req.user, and the
\* scheduled-post validation answers 400 or await Post.create returns with
\* the post stored
CreateBegin(s, me, status, scheduledFor) ==
  LET out == CreatePost(posts, status, scheduledFor) IN
    /\ Free(s)
    /\ Len(posts) < MaxPosts
    /\ posts' = out.posts
    /\ IF out.code = 201
       THEN /\ pmeta' = Append(pmeta, NewPost(me))
            /\ Hold(s, Work("populate", "create", me, Len(out.posts), <<>>, <<>>, 0))
            /\ clast' = clast
       ELSE /\ pmeta' = pmeta
            /\ clast' = Plain("create", me, Len(posts), 400)
            /\ running' = running
    /\ UNCHANGED <<now, plast, comments, listed, cversion, wvars>>

\* await Post.findById(post._id).populate('author') returns and the 201 is
\* sent, with the post or with null
CreateFound(s) ==
  LET h == running[s] IN
    /\ h.pc = "populate"
    /\ clast' = Plain("create", h.me, h.id, 201)
    /\ Leave(s)
    /\ UNCHANGED <<pvars, pmeta, comments, listed, cversion, wvars>>

\* POST /api/posts by one of authors, with a status of statuses and a
\* scheduledFor of dates
Create(open, authors, statuses, dates) == \E s \in Slots :
  \/ open /\ \E me \in authors, status \in statuses, scheduledFor \in dates :
       CreateBegin(s, me, status, scheduledFor)
  \/ running[s].op = "create" /\ CreateFound(s)

\* the checks of POST /api/comments without a parent comment
CommentChecks(ms, id) ==
  IF ~(id \in 1..Len(ms) /\ ms[id].exists) THEN 404
  ELSE IF ~ms[id].allowComments THEN 400
  ELSE 201

\* POST /api/comments for a post arrives and await Post.findById returns
CommentBegin(s, me, id) ==
  LET code == CommentChecks(pmeta, id) IN
    /\ Free(s)
    /\ Len(comments) + InFlight("comment") < MaxPosts
    /\ IF code = 201
       THEN /\ Hold(s, Work("create", "comment", me, id, <<>>, 0, 0))
            /\ clast' = clast
       ELSE /\ clast' = Plain("comment", me, id, code)
            /\ running' = running
    /\ UNCHANGED <<pvars, pmeta, comments, listed, cversion, wvars>>

\* await Comment.create({post, author, content, parentComment: null})
\* returns
CreateComment(s) ==
  LET h == running[s] IN
    /\ h.pc = "create"
    /\ comments' = Append(comments, [post |-> h.id, author |-> h.me,
                                     likes |-> <<>>, exists |-> TRUE])
    /\ Hold(s, [h EXCEPT !.pc = "populate", !.doc = Len(comments) + 1])
    /\ UNCHANGED <<pvars, pmeta, clast, listed, cversion, wvars>>

\* await Comment.findById(comment._id).populate('author') returns and the
\* 201 is sent, with the comment or with null
CommentFound(s) ==
  LET h == running[s] IN
    /\ h.pc = "populate"
    /\ clast' = Plain("comment", h.me, h.id, 201)
    /\ Leave(s)
    /\ UNCHANGED <<pvars, pmeta, comments, listed, cversion, wvars>>

\* POST /api/comments ; requests: the callers and the posts they name
AddComment(open, requests) == \E s \in Slots :
  \/ open /\ \E rq \in requests : CommentBegin(s, rq[1], rq[2])
  \/ running[s].op = "comment" /\ CreateComment(s)
  \/ running[s].op = "comment" /\ CommentFound(s)

\* the document a like request reads: likes and version key
Liked(op, id) ==
  IF op = "likePost" THEN [likes |-> pmeta[id].likes, v |-> pmeta[id].v]
  ELSE [likes |-> comments[id].likes, v |-> cversion[id]]

\* findById of a like request finds a document
LikedExists(op, id) == IF op = "likePost" THEN PostExists(id) ELSE CommentExists(id)

\* toggleLike of the model the like request is about
Toggle(op, likes, user) ==
  IF op = "likePost" THEN PostToggleLike(likes, user) ELSE ToggleLike(likes, user)

\* POST /api/posts/:id/like or POST /api/comments/:id/like arrives and
\* await findById returns: 404 without a document
LikeBegin(s, op, me, id) ==
  /\ Free(s)
  /\ IF LikedExists(op, id)
     THEN /\ Liked(op, id).v + InFlight(op) < MaxLikes
          /\ Hold(s, Work("save", op, me, id, <<>>, Liked(op, id), 0))
          /\ clast' = clast
     ELSE /\ clast' = Plain(op, me, id, 404)
          /\ running' = running
  /\ UNCHANGED <<pvars, pmeta, comments, listed, cversion, wvars>>

\* toggleLike(req.user._id) on the document read, and await save() returns:
\* a push is added to the stored array; the array after a removal is set as
\* a whole, and only onto the version read; the save of a deleted document
\* throws. The catch answers 500
LikeSave(s) ==
  LET h == running[s]
      t == Toggle(h.op, h.doc.likes, h.me)
      ok == /\ LikedExists(h.op, h.id)
            /\ t.isLiked \/ Liked(h.op, h.id).v = h.doc.v
      likes == IF t.isLiked THEN Append(Liked(h.op, h.id).likes, h.me) ELSE t.likes IN
    /\ h.pc = "save"
    /\ pmeta' = IF ok /\ h.op = "likePost"
                THEN [pmeta EXCEPT ![h.id].likes = likes, ![h.id].v = @ + 1]
                ELSE pmeta
    /\ comments' = IF ok /\ h.op = "likeComment"
                   THEN [comments EXCEPT ![h.id].likes = likes]
                   ELSE comments
    /\ cversion' = IF ok /\ h.op = "likeComment"
                   THEN [cversion EXCEPT ![h.id] = @ + 1] ELSE cversion
    /\ clast' = IF ok
                THEN [op |-> h.op, me |-> h.me, id |-> h.id, code |-> 200,
                      isLiked |-> t.isLiked, likesCount |-> Len(t.likes),
                      before |-> Liked(h.op, h.id).likes]
                ELSE Plain(h.op, h.me, h.id, 500)
    /\ Leave(s)
    /\ UNCHANGED <<pvars, listed, wvars>>

\* POST /api/posts/:id/like ; requests: the callers and the posts they name
LikePost(open, requests) == \E s \in Slots :
  \/ open /\ \E rq \in requests : LikeBegin(s, "likePost", rq[1], rq[2])
  \/ running[s].op = "likePost" /\ LikeSave(s)

\* POST /api/comments/:id/like
LikeComment(open) == \E s \in Slots :
  \/ open /\ \E me \in Users, id \in Ids : LikeBegin(s, "likeComment", me, id)
  \/ running[s].op = "likeComment" /\ LikeSave(s)

\* the query of GET /api/posts with an optional author filter
PublicQuery(ps, ms, t, author) ==
  {id \in 1..Len(ps) :
     /\ ms[id].exists
     /\ ps[id].status = "published"
     /\ ps[id].publishedAt # NoDate /\ ps[id].publishedAt <= t
     /\ (author # NoUser => ms[id].author = author)}

\* the query of GET /api/posts/user/:userId for the status query parameter
UserQuery(ps, ms, t, userId, status) ==
  {id \in 1..Len(ps) :
     /\ ms[id].exists
     /\ ms[id].author = userId
     /\ IF status = "published"
        THEN /\ ps[id].status = "published"
             /\ ps[id].publishedAt # NoDate /\ ps[id].publishedAt <= t
        ELSE IF status = "draft"
        THEN ps[id].status = "draft"
        ELSE TRUE}

\* GET /api/posts or GET /api/posts/user/:userId arrives: the query is built,
\* new Date() with it, and Post.find is sent. status defaults to published
PostsArrive(s, op, id, status) ==
  /\ Free(s)
  /\ Hold(s, Work("find", op, NoUser, id,
                  IF status = Absent THEN "published" ELSE status, {}, now))
  /\ UNCHANGED <<pvars, cvars, cversion, wvars>>

\* await Post.find(query) returns
PostsFind(s) ==
  LET h == running[s] IN
    /\ h.pc = "find"
    /\ Hold(s, [h EXCEPT !.pc = "count",
                         !.doc = IF h.op = "list"
                                 THEN PublicQuery(posts, pmeta, h.at, h.id)
                                 ELSE UserQuery(posts, pmeta, h.at, h.id, h.arg)])
    /\ UNCHANGED <<pvars, cvars, cversion, wvars>>

\* await Post.countDocuments(query) returns and the listing is sent
PostsCount(s) ==
  LET h == running[s] IN
    /\ h.pc = "count"
    /\ listed' = h.doc
    /\ clast' = Plain(h.op, NoUser, h.id, 200)
    /\ Leave(s)
    /\ UNCHANGED <<pvars, pmeta, comments, cversion, wvars>>

\* GET /api/posts
ListPosts(open) == \E s \in Slots :
  \/ open /\ \E author \in UserIds : PostsArrive(s, "list", author, Absent)
  \/ running[s].op = "list" /\ PostsFind(s)
  \/ running[s].op = "list" /\ PostsCount(s)

\* GET /api/posts/user/:userId
ListUserPosts(open) == \E s \in Slots :
  \/ open /\ \E userId \in Users, status \in {Absent, "published", "draft", "scheduled"} :
       PostsArrive(s, "listUser", userId, status)
  \/ running[s].op = "listUser" /\ PostsFind(s)
  \/ running[s].op = "listUser" /\ PostsCount(s)

\* the users whose role is admin
Admins == {1}

\* an authorization check that lets every authenticated user through
Authorized_AnyUser(ms, me, id) == me \in Users

\* post.author is the caller or the caller's role is admin
Authorized(ms, me, id) == ms[id].author = me \/ me \in Admins

\* request bodies of PUT /api/posts/:id
Bodies ==
  {[status |-> "published"], [status |-> "archived"], [status |-> "draft"],
   [status |-> "scheduled"], [views |-> 0], [allowComments |-> FALSE]}
  \cup {[status |-> "scheduled", scheduledFor |-> t] : t \in Times}
  \cup {[scheduledFor |-> t] : t \in Times}

\* the validators of PUT /api/posts/:id accept the body
ValidBody(body) ==
  "status" \in DOMAIN body => body.status \in {"draft", "published", "scheduled"}

\* findByIdAndUpdate(id, updateFields): the fields of the body are written
ApplyBody(doc, body) ==
  [k \in DOMAIN doc |-> IF k \in DOMAIN body THEN body[k] ELSE doc[k]]

\* the checks of PUT /api/posts/:id: validators, findById, authorization
UpdateChecks(ms, me, id, body) ==
  IF ~ValidBody(body) THEN 400
  ELSE IF ~(id \in 1..Len(ms) /\ ms[id].exists) THEN 404
  ELSE IF ~Authorized(ms, me, id) THEN 403
  ELSE 200

\* PUT /api/posts/:id arrives and, for a body the validators accept, await
\* Post.findById returns
UpdateBegin(s, me, id, body) ==
  LET code == UpdateChecks(pmeta, me, id, body) IN
    /\ Free(s)
    /\ IF code = 200
       THEN /\ Hold(s, Work("update", "update", me, id, body, <<>>, 0))
            /\ clast' = clast
       ELSE /\ clast' = Plain("update", me, id, code)
            /\ running' = running
    /\ UNCHANGED <<pvars, pmeta, comments, listed, cversion, wvars>>

\* await Post.findByIdAndUpdate(id, req.body) returns and the 200 is sent:
\* the fields of the body are written to the stored post, if there is one
UpdateWrite(s) ==
  LET h == running[s] IN
    /\ h.pc = "update"
    /\ posts' = IF PostExists(h.id)
                THEN [posts EXCEPT ![h.id] = ApplyBody(@, h.arg)] ELSE posts
    /\ pmeta' = IF PostExists(h.id)
                THEN [pmeta EXCEPT ![h.id] = ApplyBody(@, h.arg)] ELSE pmeta
    /\ clast' = Plain("update", h.me, h.id, 200)
    /\ Leave(s)
    /\ UNCHANGED <<now, plast, comments, listed, cversion, wvars>>

\* PUT /api/posts/:id ; requests: the callers and the posts they name
Update(open, requests, bodies) == \E s \in Slots :
  \/ open /\ \E rq \in requests, body \in bodies : UpdateBegin(s, rq[1], rq[2], body)
  \/ running[s].op = "update" /\ UpdateWrite(s)

\* a document that findByIdAndDelete has removed; its id is not used again
Deleted == [status |-> "deleted", scheduledFor |-> NoDate, publishedAt |-> NoDate]

\* deleteMany that removes only the first comment of the post
DeleteComments_FirstOnly(cs, id) ==
  [c \in 1..Len(cs) |->
     IF cs[c].post = id /\ \A d \in 1..(c - 1) : cs[d].post # id
     THEN [cs[c] EXCEPT !.exists = FALSE] ELSE cs[c]]

\* Comment.deleteMany({ post: id })
DeleteComments(cs, id) ==
  [c \in 1..Len(cs) |->
     IF cs[c].post = id THEN [cs[c] EXCEPT !.exists = FALSE] ELSE cs[c]]

\* the checks of DELETE /api/posts/:id: findById, authorization
DeleteChecks(ms, me, id) ==
  IF ~(id \in 1..Len(ms) /\ ms[id].exists) THEN 404
  ELSE IF ~Authorized(ms, me, id) THEN 403
  ELSE 200

\* DELETE /api/posts/:id arrives and await Post.findById returns
DeleteBegin(s, me, id) ==
  LET code == DeleteChecks(pmeta, me, id) IN
    /\ Free(s)
    /\ IF code = 200
       THEN /\ Hold(s, Work("deleteMany", "delete", me, id, <<>>, <<>>, 0))
            /\ clast' = clast
       ELSE /\ clast' = Plain("delete", me, id, code)
            /\ running' = running
    /\ UNCHANGED <<pvars, pmeta, comments, listed, cversion, wvars>>

\* await Comment.deleteMany({ post: req.params.id }) returns
DeleteMany(s) ==
  LET h == running[s] IN
    /\ h.pc = "deleteMany"
    /\ comments' = DeleteComments(comments, h.id)
    /\ Hold(s, [h EXCEPT !.pc = "deletePost"])
    /\ UNCHANGED <<pvars, pmeta, clast, listed, cversion, wvars>>

\* await Post.findByIdAndDelete(req.params.id) returns and the 200 is sent
DeleteById(s) ==
  LET h == running[s] IN
    /\ h.pc = "deletePost"
    /\ posts' = [posts EXCEPT ![h.id] = Deleted]
    /\ pmeta' = [pmeta EXCEPT ![h.id].exists = FALSE]
    /\ clast' = Plain("delete", h.me, h.id, 200)
    /\ Leave(s)
    /\ UNCHANGED <<now, plast, comments, listed, cversion, wvars>>

\* DELETE /api/posts/:id ; requests: the callers and the posts they name
Delete(open, requests) == \E s \in Slots :
  \/ open /\ \E rq \in requests : DeleteBegin(s, rq[1], rq[2])
  \/ running[s].op = "delete" /\ DeleteMany(s)
  \/ running[s].op = "delete" /\ DeleteById(s)

\* postSchema.methods.incrementViews: views goes up by one and is saved
IncrementViews(ms, id) == [ms EXCEPT ![id].views = @ + 1]

\* GET /api/posts/:id arrives and await Post.findById returns: 404 without
\* the post
ViewBegin(s, id) ==
  /\ Free(s)
  /\ IF PostExists(id)
     THEN /\ pmeta[id].views + InFlight("view") < MaxViews
          /\ Hold(s, Work("save", "view", NoUser, id, <<>>, <<>>, 0))
          /\ clast' = clast
     ELSE /\ clast' = Plain("view", NoUser, id, 404)
          /\ running' = running
  /\ UNCHANGED <<pvars, pmeta, comments, listed, cversion, wvars>>

\* await post.incrementViews() returns; the save of a deleted post throws
\* and the catch answers 500
ViewSave(s) ==
  LET h == running[s] IN
    /\ h.pc = "save"
    /\ IF PostExists(h.id)
       THEN /\ pmeta' = IncrementViews(pmeta, h.id)
            /\ Hold(s, [h EXCEPT !.pc = "comments"])
            /\ clast' = clast
       ELSE /\ pmeta' = pmeta
            /\ clast' = Plain("view", NoUser, h.id, 500)
            /\ Leave(s)
    /\ UNCHANGED <<pvars, comments, listed, cversion, wvars>>

\* await Comment.getCommentsForPost returns and the post is sent
ViewComments(s) ==
  LET h == running[s] IN
    /\ h.pc = "comments"
    /\ clast' = Plain("view", NoUser, h.id, 200)
    /\ Leave(s)
    /\ UNCHANGED <<pvars, pmeta, comments, listed, cversion, wvars>>

\* GET /api/posts/:id
View(open) == \E s \in Slots :
  \/ open /\ \E id \in Ids : ViewBegin(s, id)
  \/ running[s].op = "view" /\ ViewSave(s)
  \/ running[s].op = "view" /\ ViewComments(s)

\* any user and any post id
Anyone == Users \X Ids

\* any user and a post that was created
OfCreated == Users \X (1..Len(posts))

\* a post that exists and its author
ByAuthor == {<<pmeta[id].author, id>> : id \in {i \in Ids : PostExists(i)}}

(* --------------------------- specifications ---------------------------- *)
Init ==
  /\ friends = [u \in Users |-> <<>>]
  /\ friendRequests = [u \in Users |-> <<>>]
  /\ last = NoRequest
  /\ repeated = FALSE
  /\ dupStage = 0
  /\ nops = 0
  /\ posts = <<>>
  /\ now = 1
  /\ plast = NoPostOp
  /\ pub = [p \in Instances |-> Idle]
  /\ messages = <<>>
  /\ mlast = NoMessage
  /\ pmeta = <<>>
  /\ comments = <<>>
  /\ clast = NoContent
  /\ listed = {}
  /\ flisted = NoListing
  /\ client = LoggedOut
  /\ cversion = [id \in Ids |-> 0]
  /\ version = [u \in Users |-> 0]
  /\ following = [u \in Users |-> <<>>]
  /\ followers = [u \in Users |-> <<>>]
  /\ running = [h \in Slots |-> NoHandler]

\* user 1 publishes the first post
FirstPost == Create(Quiet /\ Len(posts) = 0, {1}, {"published"}, {NoDate})

\* user 2 writes the first comment, on post 1
FirstComment == AddComment(Quiet /\ Len(comments) = 0, {<<2, 1>>})

NextLikeRace == FirstPost \/ FirstComment \/ LikeComment(TRUE)

\* like requests on comments handled two at a time, interleaving at their
\* database awaits
SpecLikeRace == Init /\ [][NextLikeRace]_vars

NextCommentRace ==
  \/ Create(Len(posts) = 0, {1, 2}, {"published"}, {NoDate})
  \/ AddComment(TRUE, OfCreated)
  \/ Delete(TRUE, OfCreated)

\* comments added and posts deleted two requests at a time, interleaving at
\* their database awaits
SpecCommentRace == Init /\ [][NextCommentRace]_vars

NextRace == Send(TRUE) \/ Accept(TRUE) \/ Reject(TRUE) \/ Remove(TRUE) \/ Cancel(TRUE)

\* user 2 has sent a request to user 1
InitPending ==
  /\ friends = [u \in Users |-> <<>>]
  /\ friendRequests = [u \in Users |-> IF u = 1
                                        THEN <<[from |-> 2, status |-> "pending"]>>
                                        ELSE <<>>]
  /\ last = [op |-> "send", me |-> 2, uid |-> 1, code |-> 200,
             message |-> "Friend request sent successfully", n |-> 1]
  /\ repeated = FALSE
  /\ dupStage = 0
  /\ nops = 1
  /\ posts = <<>>
  /\ now = 1
  /\ plast = NoPostOp
  /\ pub = [p \in Instances |-> Idle]
  /\ messages = <<>>
  /\ mlast = NoMessage
  /\ pmeta = <<>>
  /\ comments = <<>>
  /\ clast = NoContent
  /\ listed = {}
  /\ flisted = NoListing
  /\ client = LoggedOut
  /\ cversion = [id \in Ids |-> 0]
  /\ version = [u \in Users |-> IF u = 1 THEN 1 ELSE 0]
  /\ following = [u \in Users |-> <<>>]
  /\ followers = [u \in Users |-> <<>>]
  /\ running = [h \in Slots |-> NoHandler]

\* the requests of the friends router handled two at a time, interleaving
\* at their database awaits
SpecRace == InitPending /\ [][NextRace]_vars

NextFriends ==
  Send(Quiet) \/ Accept(Quiet) \/ Reject(Quiet) \/ Remove(Quiet) \/ Cancel(Quiet)

\* the requests of the friends router handled one at a time
SpecFriends == InitPending /\ [][NextFriends]_vars

NextFollow ==
  \/ Accept(NoFriendRoute) \/ Remove(NoFriendRoute) \/ Cancel(NoFriendRoute)
  \/ Follow(NoFollowRoute, Users \X UserIds)
  \/ Unfollow(NoFollowRoute, Users \X UserIds)

\* the friend routes handled one request at a time while users follow and
\* unfollow each other: a request of the follow routes is handled alongside
\* a request of the friends router
SpecFollow == InitPending /\ [][NextFollow]_vars

NextSent ==
  Send(Quiet) \/ Accept(Quiet) \/ Reject(Quiet) \/ Cancel(Quiet) \/ ListSent(Quiet)

\* requests sent, answered and cancelled, and the sent-requests listing
SpecSent == InitPending /\ [][NextSent]_vars

NextSuggest == Send(Quiet) \/ Accept(Quiet) \/ ListSuggestions(Quiet)

\* requests sent and accepted, and the suggestions listing
SpecSuggest == InitPending /\ [][NextSuggest]_vars

NextClient ==
  \/ Login(TRUE) \/ Register(TRUE) \/ UpdateProfile(TRUE)
  \/ ChangePassword(TRUE) \/ Logout(TRUE) \/ Navigate(TRUE)
  \/ Load(TRUE) \/ CheckAuth(TRUE) \/ Unload

\* the session of one browser: the user acts and the hourly timer fires
\* while requests are in flight, and a page that the interceptor leaves is
\* replaced at any later moment
SpecClient == Init /\ [][NextClient]_vars

\* a post by user 2: scheduled with any date or none while there is room for
\* a post after it, or with any other status and no date
PostAny ==
  \/ Create(Quiet /\ Len(posts) + 1 < MaxPosts, {2}, {"scheduled"}, Dates)
  \/ Create(Quiet, {2}, PostStatuses \ {"scheduled"}, {NoDate})

NextPub == PostAny \/ AdvanceTime \/ StartA \/ QueryA \/ SaveA

\* posts created and published by the cron callback
SpecPub == Init /\ [][NextPub]_vars

NextMsg ==
  \/ Accept(Quiet)
  \/ Remove(InFlight("accept") + InFlight("remove") = 0)
  \/ MessageSend(InFlight("message") = 0 /\ Len(messages) = 0,
                 {1, 2} \X {1, 2, NoUser}, Contents)

\* a friendship made and ended one request at a time, and messages of users
\* 1 and 2 sent one at a time meanwhile, up to the first that is stored
SpecMsg == InitPending /\ [][NextMsg]_vars

\* user 1 has sent a request to users 2 and 3 and each has accepted it
InitInbox ==
  /\ friends = [u \in Users |-> IF u = 1 THEN <<2, 3>>
                                 ELSE IF u \in {2, 3} THEN <<1>> ELSE <<>>]
  /\ friendRequests = [u \in Users |-> <<>>]
  /\ last = NoRequest
  /\ repeated = FALSE
  /\ dupStage = 0
  /\ nops = 0
  /\ posts = <<>>
  /\ now = 1
  /\ plast = NoPostOp
  /\ pub = [p \in Instances |-> Idle]
  /\ messages = <<>>
  /\ mlast = NoMessage
  /\ pmeta = <<>>
  /\ comments = <<>>
  /\ clast = NoContent
  /\ listed = {}
  /\ flisted = NoListing
  /\ client = LoggedOut
  /\ cversion = [id \in Ids |-> 0]
  /\ version = [u \in Users |-> IF u \in {1, 2, 3} THEN 2 ELSE 0]
  /\ following = [u \in Users |-> <<>>]
  /\ followers = [u \in Users |-> <<>>]
  /\ running = [h \in Slots |-> NoHandler]

NextInbox ==
  \/ MessageToFriend(InFlight("message") = 0)
  \/ MarkAsRead(InFlight("read") = 0, {1} \X {2, 3})
  \/ Conversation(InFlight("conversation") = 0, {1} \X {2, NoUser})
  \/ AdvanceTime

\* messages sent among friends, marked as read and fetched while the clock
\* runs
SpecInbox == InitInbox /\ [][NextInbox]_vars

\* the first post, by any user and with any status
PostFirst == Create(Quiet /\ Len(posts) = 0, Users, PostStatuses, Dates)

NextSched == PostFirst \/ Update(Quiet, Anyone, Bodies)

\* a post created with any status and updated with any body
SpecSched == Init /\ [][NextSched]_vars

NextList ==
  PostFirst \/ AdvanceTime \/ StartA \/ QueryA \/ SaveA \/ ListPosts(Quiet) \/ ListUserPosts(Quiet)

\* posts created, published by the cron callback, and listed
SpecList == Init /\ [][NextList]_vars

\* a draft by user 2, who is no admin, while there is room for another post
PostDraft == Create(Quiet /\ Len(posts) + 1 < MaxPosts, {2}, {Absent}, {NoDate})

\* a comment on a post by the post's author
CommentByAuthor == AddComment(Quiet /\ Len(comments) + 1 < MaxPosts, ByAuthor)

\* any user asks to publish a post that was created
Publish == Update(Quiet, OfCreated, {[status |-> "published"]})

\* any user asks to delete a post that was created
DeleteCreated == Delete(Quiet, OfCreated)

NextEdit == PostDraft \/ CommentByAuthor \/ Publish \/ DeleteCreated

\* posts and comments written, updated and deleted, one request at a time
SpecEdit == Init /\ [][NextEdit]_vars

\* the first post, by user 2 and with any status
PostOne == Create(Quiet /\ Len(posts) = 0, {2}, PostStatuses, Dates)

\* an update of a post by its author
UpdateOwn == Update(Quiet, ByAuthor, Bodies)

\* a like of a post by its author
LikeOwn == LikePost(Quiet, ByAuthor)

NextViews ==
  PostOne \/ View(Quiet) \/ UpdateOwn \/ LikeOwn \/ StartA \/ QueryA \/ SaveA

\* a post viewed, updated, liked and published by the cron callback, at the
\* first instant of the clock
SpecViews == Init /\ [][NextViews]_vars

NextLikes == FirstPost \/ FirstComment \/ LikePost(Quiet, Anyone) \/ LikeComment(Quiet)

\* likes toggled on a post and on a comment, one request at a time
SpecLikes == Init /\ [][NextLikes]_vars

\* an author creates a scheduled post with a date
CreateScheduled ==
  Create(Quiet /\ Len(posts) + 1 < MaxPosts, {2}, {"scheduled"}, Times)

NextPubFair == CreateScheduled \/ AdvanceTime \/ StartA \/ QueryA \/ SaveA

\* the author takes a post back to draft or moves its date
Withdraw ==
  Update(Quiet, ByAuthor,
         {[status |-> "draft"]} \cup {[scheduledFor |-> t] : t \in Times})

NextPubEdit == CreateScheduled \/ AdvanceTime \/ StartA \/ QueryA \/ SaveA \/ Withdraw

\* one publisher process whose query and saves interleave with the updates
\* of post authors
SpecPubEdit == Init /\ [][NextPubEdit]_vars

NextPub2 == CreateScheduled \/ AdvanceTime \/ Start \/ Query \/ Save

\* two publisher instances whose queries and saves interleave
SpecPub2 == Init /\ [][NextPub2]_vars

\* the publisher over scheduled posts with the cron timer firing every minute
\* and the database answering every query: a callback is called while none
\* is running, and a query that was sent is answered. Nothing is said about
\* the saves, which can fail every time
SpecPubFair ==
  /\ Init /\ [][NextPubFair]_vars
  /\ WF_vars(StartA)
  /\ WF_vars(QueryA)

(* ======================= friend relationship claims ==================== *)
\* number of entries of reqs whose from is uid
CountFrom(reqs, uid) == Cardinality({i \in 1..Len(reqs) : reqs[i].from = uid})

\* the entries of reqs that are not from uid, in order
OthersThan(reqs, uid) ==
  LET other(e) == e.from # uid IN SelectSeq(reqs, other)

\* a request is answered in this step
Responded == last'.n # last.n

\* the handler that answers in this step after an await
Answering(s) == running[s].pc # "idle" /\ running'[s] # running[s]

\* the stored friends and friendRequests arrays when the request answered
\* in this step arrived
FriendsBefore ==
  IF \E s \in Slots : Answering(s)
  THEN running[CHOOSE s \in Slots : Answering(s)].f0 ELSE friends
RequestsBefore ==
  IF \E s \in Slots : Answering(s)
  THEN running[CHOOSE s \in Slots : Answering(s)].r0 ELSE friendRequests

\* C1: after any sequence of completed send, accept, reject, cancel and
\* remove requests, handled one at a time with every save succeeding, B is
\* in A.friends if and only if A is in B.friends.
C1_FriendsSymmetric ==
  Quiet => \A a \in Users, b \in Users :
             Includes(friends[a], b) <=> Includes(friends[b], a)

\* a friendship has just been formed by an accept
C1_Witness ==
  /\ last.op = "accept" /\ last.code = 200
  /\ Includes(friends[last.me], last.uid)
  /\ Includes(friends[last.uid], last.me)

\* C2: accept by B of a pending request from A, the two not being friends,
\* succeeds, puts each in the other's friends and leaves no entry from A in
\* B.friendRequests; from empty friends lists and that single request the
\* result is A.friends=[B], B.friends=[A], B.friendRequests=[].
C2_AcceptEffect ==
  [][ (/\ Responded /\ last'.op = "accept"
       /\ last'.uid \in Users
       /\ PendingFrom(RequestsBefore[last'.me], last'.uid)
       /\ ~Includes(FriendsBefore[last'.me], last'.uid)
       /\ ~Includes(FriendsBefore[last'.uid], last'.me))
      => (/\ last'.code = 200
          /\ Includes(friends'[last'.me], last'.uid)
          /\ Includes(friends'[last'.uid], last'.me)
          /\ CountFrom(friendRequests'[last'.me], last'.uid) = 0
          /\ (/\ FriendsBefore[last'.me] = <<>>
              /\ FriendsBefore[last'.uid] = <<>>
              /\ Len(RequestsBefore[last'.me]) = 1)
             => (/\ friends'[last'.uid] = <<last'.me>>
                 /\ friends'[last'.me] = <<last'.uid>>
                 /\ friendRequests'[last'.me] = <<>>)) ]_vars

\* C3: send fails and changes nothing when requester = target, the target
\* does not exist, the target is already a friend of the requester or a
\* pending request from the requester is on the target's record; in every
\* other case it succeeds and appends exactly {from: requester, pending}.
C3_SendCases ==
  [][ (Responded /\ last'.op = "send") =>
      IF \/ last'.uid = last'.me
         \/ last'.uid \notin Users
         \/ Includes(FriendsBefore[last'.me], last'.uid)
         \/ PendingFrom(RequestsBefore[last'.uid], last'.me)
      THEN /\ last'.code # 200
           /\ friends' = FriendsBefore
           /\ friendRequests' = RequestsBefore
      ELSE /\ last'.code = 200
           /\ friends' = FriendsBefore
           /\ friendRequests' =
                [RequestsBefore EXCEPT ![last'.uid] =
                   Append(@, [from |-> last'.me, status |-> "pending"])] ]_vars

\* C4: right after the target rejected the requester's pending request, a
\* send from the same requester to the same target succeeds and creates a
\* new pending entry.
C4_ResendAfterReject ==
  [][ (/\ last.op = "reject" /\ last.code = 200
       /\ Responded /\ last'.op = "send"
       /\ last'.me = last.uid /\ last'.uid = last.me)
      => (/\ last'.code = 200
          /\ PendingFrom(friendRequests'[last'.uid], last'.me)) ]_vars

\* C5: after the accepter rejected the requester's pending request, an
\* accept by the same accepter for the same requester fails with 404 and
\* creates no friendship.
C5_AcceptAfterReject ==
  [][ (/\ last.op = "reject" /\ last.code = 200
       /\ Responded /\ last'.op = "accept"
       /\ last'.me = last.me /\ last'.uid = last.uid)
      => (/\ last'.code = 404
          /\ friends' = FriendsBefore) ]_vars

\* C6: a send while a request from the same requester is pending on the
\* target fails with 400 and adds no entry; once the requester has
\* cancelled it, the next send succeeds and leaves exactly one entry from
\* the requester on the target's record, a pending one.
C6_DuplicateThenCancelResend ==
  [][ (Responded /\ last'.op = "send") =>
      /\ (/\ last'.uid \in Users
          /\ PendingFrom(RequestsBefore[last'.uid], last'.me))
         => (/\ last'.code = 400
             /\ friendRequests' = RequestsBefore
             /\ friends' = FriendsBefore)
      /\ (/\ last.op = "cancel" /\ last.code = 200
          /\ last.me = last'.me /\ last.uid = last'.uid
          /\ dupStage = 2)
         => (/\ last'.code = 200
             /\ CountFrom(friendRequests'[last'.uid], last'.me) = 1
             /\ PendingFrom(friendRequests'[last'.uid], last'.me)) ]_vars

\* the resend after duplicate-then-cancel has been handled
C6_Witness ==
  /\ last.op = "send" /\ last.code = 200
  /\ dupStage = 3
  /\ CountFrom(friendRequests[last.uid], last.me) = 1

\* C7: remove friend(a, b) fails and changes no document when b is not in
\* a.friends; otherwise it succeeds, takes b out of a.friends and a out of
\* b.friends and nothing else, so that send, accept, remove ends with both
\* friends lists empty.
C7_RemoveFriend ==
  [][ (Responded /\ last'.op = "remove") =>
      IF last'.uid \in Users /\ Includes(FriendsBefore[last'.me], last'.uid)
      THEN /\ last'.code = 200
           /\ friendRequests' = RequestsBefore
           /\ \A u \in Users :
                LET gone == IF u = last'.me THEN {last'.uid}
                            ELSE IF u = last'.uid THEN {last'.me} ELSE {}
                IN /\ Elems(friends'[u]) = Elems(FriendsBefore[u]) \ gone
                   /\ Len(friends'[u]) = Len(FriendsBefore[u]) - Cardinality(gone)
           /\ (FriendsBefore[last'.me] = <<last'.uid>> /\ FriendsBefore[last'.uid] = <<last'.me>>)
              => (friends'[last'.me] = <<>> /\ friends'[last'.uid] = <<>>)
      ELSE /\ last'.code # 200
           /\ friends' = FriendsBefore
           /\ friendRequests' = RequestsBefore ]_vars

\* C8: cancel on an existing target always succeeds; afterwards the target
\* holds no entry from the requester; a second cancel changes nothing more;
\* entries from other requesters and all friends lists are unchanged.
C8_CancelIdempotent ==
  [][ (Responded /\ last'.op = "cancel" /\ last'.uid \in Users) =>
      /\ last'.code = 200
      /\ ~PendingFrom(friendRequests'[last'.uid], last'.me)
      /\ OthersThan(friendRequests'[last'.uid], last'.me)
           = OthersThan(RequestsBefore[last'.uid], last'.me)
      /\ Len(friendRequests'[last'.uid]) =
           Len(RequestsBefore[last'.uid]) - CountFrom(RequestsBefore[last'.uid], last'.me)
      /\ \A u \in Users \ {last'.uid} : friendRequests'[u] = RequestsBefore[u]
      /\ friends' = FriendsBefore
      /\ (last.op = "cancel" /\ last.code = 200
          /\ last.me = last'.me /\ last.uid = last'.uid)
         => friendRequests' = RequestsBefore ]_vars

(* ========================== publisher claims =========================== *)
\* post id of ps is due at instant t
Due(ps, id, t) ==
  /\ ps[id].status = "scheduled"
  /\ ps[id].scheduledFor # NoDate
  /\ ps[id].scheduledFor <= t

\* the callback of instance p is over after this step
TickEnds(p) == pub[p].pc # "idle" /\ pub'[p].pc = "idle"

\* C9: after a tick in which every save succeeds, every post that was
\* scheduled with scheduledFor <= now when the callback was called, now being
\* the instant of that call, is published with publishedAt set, to an instant
\* of the tick; every other post that was in the store then is unchanged,
\* whether it was scheduled for later, a draft or already published; and a
\* post created after the call is published by the tick or left as it is.
C9_TickPublishesDue ==
  [][ \A p \in Instances :
      (TickEnds(p) /\ plast'.failed = 0) =>
      /\ Len(posts') = Len(posts)
      /\ Len(pub[p].start) <= Len(posts)
      /\ \A id \in 1..Len(posts) :
           IF id <= Len(pub[p].start)
           THEN IF Due(pub[p].start, id, pub[p].at)
                THEN /\ posts'[id].status = "published"
                     /\ posts'[id].publishedAt # NoDate
                     /\ posts'[id].publishedAt >= pub[p].at
                     /\ posts'[id].publishedAt <= now
                     /\ posts'[id].scheduledFor = pub[p].start[id].scheduledFor
                ELSE posts'[id] = pub[p].start[id]
           ELSE \/ posts'[id] = posts[id]
                \/ /\ posts'[id].status = "published"
                   /\ posts'[id].publishedAt # NoDate ]_vars

\* a tick called at one instant has ended at a later one: it has published a
\* post that was due at the call, and has left alone a post that came due
\* between the call and the answer of the query and a post scheduled for later
C9_Witness ==
  /\ plast.op = "tick" /\ plast.failed = 0 /\ plast.at = now
  /\ plast.from < now
  /\ \E id \in 1..Len(posts) :
       /\ posts[id].status = "published"
       /\ posts[id].publishedAt = now
       /\ posts[id].scheduledFor # NoDate
       /\ posts[id].scheduledFor <= plast.from
  /\ \E id \in 1..Len(posts) :
       /\ posts[id].status = "scheduled"
       /\ posts[id].scheduledFor > plast.from
       /\ posts[id].scheduledFor <= now

\* C10: when the save of one due post fails during a tick, every other due
\* post selected by that tick is still published.
C10_FailureDoesNotAbortBatch ==
  [][ \A p \in Instances :
      (TickEnds(p) /\ plast'.failed # 0) =>
      \A k \in 1..Len(pub[p].selected) :
        LET id == pub[p].selected[k] IN
          id # plast'.failed
          => (posts'[id].status = "published" /\ posts'[id].publishedAt # NoDate) ]_vars

\* the callback of the publisher has selected post id
Selected(id) ==
  /\ pub["A"].pc = "loop"
  /\ \E k \in 1..Len(pub["A"].selected) : pub["A"].selected[k] = id

\* C11: a due post whose save fails during a tick is still scheduled in the
\* store and still due, and stays so until it is published; with the timer
\* firing and the query answered, the tick after the failure selects it
\* again; and if a save of that post eventually succeeds, the post is
\* eventually published.
C11_RetryOnNextTick ==
  /\ [][ /\ \A p \in Instances :
              (TickEnds(p) /\ plast'.failed # 0)
              => (/\ posts'[plast'.failed] = posts[plast'.failed]
                  /\ Due(posts', plast'.failed, now')
                  /\ \E k \in 1..Len(GetScheduledPostsToPublish(posts', now', 1)) :
                       GetScheduledPostsToPublish(posts', now', 1)[k] = plast'.failed)
         /\ \A id \in 1..Len(posts) :
              Due(posts, id, now)
                => (Due(posts', id, now') \/ posts'[id].status = "published") ]_vars
  /\ \A id \in 1..MaxPosts :
       /\ (plast.op = "tick" /\ plast.failed = id) ~> Selected(id)
       /\ <>(plast.saved = id)
            => <>(id <= Len(posts) /\ posts[id].status = "published")

\* the save of a due post has just failed and the post is due for the next tick
C11_Witness ==
  /\ plast.op = "tick" /\ plast.failed # 0
  /\ Due(posts, plast.failed, now)
  /\ posts[plast.failed].publishedAt = NoDate

(* --------------------- accept and reject guards ------------------------ *)
\* the entry from uid that find() returns on me's record is a pending one
HoldsPending(r, me, uid) ==
  LET k == FindFrom(r[me], uid) IN k # 0 /\ r[me][k].status = "pending"

EitherListsOther(f, me, uid) ==
  uid \in Users /\ (Includes(f[me], uid) \/ Includes(f[uid], me))

\* the statuses of the entries from uid on a record
StatusesFrom(reqs, uid) ==
  {reqs[i].status : i \in {j \in 1..Len(reqs) : reqs[j].from = uid}}

\* C20: an accept or a reject changes a user document only when the
\* accepter's record holds a pending request from the requester; with no
\* entry, a non-pending entry, or (accept) either user already listing the
\* other as a friend, it answers 400 or 404 and no document changes; an
\* entry whose status is rejected never gets another status.
C20_GuardedAcceptReject ==
  [][ /\ (Responded /\ last'.op \in {"accept", "reject"}) =>
         /\ (\/ ~HoldsPending(RequestsBefore, last'.me, last'.uid)
             \/ (/\ last'.op = "accept"
                 /\ EitherListsOther(FriendsBefore, last'.me, last'.uid)))
            => (/\ last'.code \in {400, 404}
                /\ friends' = FriendsBefore
                /\ friendRequests' = RequestsBefore)
         /\ (friends' # FriendsBefore \/ friendRequests' # RequestsBefore)
            => (/\ last'.code = 200
                /\ HoldsPending(RequestsBefore, last'.me, last'.uid))
      /\ \A u \in Users, v \in Users :
           "rejected" \in StatusesFrom(friendRequests[u], v)
             => StatusesFrom(friendRequests'[u], v) \subseteq {"rejected"} ]_vars

\* an accept of an entry that was rejected before has just been refused
C20_Witness ==
  /\ last.op = "accept" /\ last.code = 400
  /\ last.message = "Friend request already processed"
  /\ last.uid \in Users
  /\ "rejected" \in StatusesFrom(friendRequests[last.me], last.uid)

(* --------------------- two publisher instances ------------------------- *)
\* C12: with the queries and saves of two publisher instances interleaved,
\* a post's publishedAt, once written, is not written again with another
\* value, and a published post is not published a second time.
C12_PublishedAtWrittenOnce ==
  [][ \A id \in 1..Len(posts) :
        posts[id].publishedAt # NoDate
          => posts'[id].publishedAt = posts[id].publishedAt ]_vars

(* ------------------------------ messaging ------------------------------ *)
\* each of a and b lists the other as a friend
EachListsOther(f, a, b) == b \in Users /\ Includes(f[a], b) /\ Includes(f[b], a)

\* C13: a message is stored only when sender and recipient each list the
\* other as a friend at that moment, and a send to a user for whom this does
\* not hold answers 403 and stores nothing.
C13_MessagesOnlyBetweenMutualFriends ==
  [][ /\ Len(messages') > Len(messages)
         => EachListsOther(friends, messages'[Len(messages')].sender,
                           messages'[Len(messages')].recipient)
      /\ \A s \in Slots :
           (/\ running[s].op = "message" /\ running[s].pc = "find"
            /\ running'[s] # running[s]
            /\ running[s].id \in Users
            /\ ~EachListsOther(friends, running[s].me, running[s].id))
           => (/\ running'[s].pc = "idle"
               /\ mlast'.code = 403
               /\ messages' = messages) ]_vars

\* the messages a mark-as-read by me for uid is to act on
UnreadFrom(ms, me, uid) ==
  {i \in 1..Len(ms) : ms[i].sender = uid /\ ms[i].recipient = me /\ ~ms[i].read}

\* C18: mark-as-read by a user for X sets read and readAt on exactly the
\* messages sent by X to that user that were unread; every other message,
\* the readAt of already read ones included, is unchanged; afterwards the
\* user has no unread message from X.
C18_MarkAsReadExact ==
  [][ \A s \in Slots :
        (running[s].op = "read" /\ running'[s].pc = "idle") =>
          LET me == running[s].me
              uid == running[s].id IN
            /\ mlast'.op = "read" /\ mlast'.code = 200
            /\ Len(messages') = Len(messages)
            /\ \A i \in 1..Len(messages) :
                 IF i \in UnreadFrom(messages, me, uid)
                 THEN messages'[i] = [messages[i] EXCEPT !.read = TRUE,
                                                         !.readAt = running[s].at]
                 ELSE messages'[i] = messages[i]
            /\ UnreadFrom(messages', me, uid) = {} ]_vars

\* a mark-as-read has just marked a message of the sender while an older
\* message of the same sender keeps the readAt of an earlier mark-as-read
C18_Witness ==
  /\ mlast.op = "read"
  /\ \E i, j \in 1..Len(messages) :
       /\ messages[i].sender = mlast.uid /\ messages[i].recipient = mlast.me
       /\ messages[j].sender = mlast.uid /\ messages[j].recipient = mlast.me
       /\ messages[i].readAt = mlast.at
       /\ messages[j].read /\ messages[j].readAt < mlast.at

(* -------------------------------- likes -------------------------------- *)
\* the likes of the post or comment a like request was about
LikesOf(ms, cs, op, id) == IF op = "likePost" THEN ms[id].likes ELSE cs[id].likes

\* C14: when a user who does not like a post or comment toggles the like, the
\* response has isLiked=true and likesCount one higher; when the same user
\* toggles it again, the response has isLiked=false and the original
\* likesCount, and the likes are those from before the first toggle.
C14_ToggleLikeTwice ==
  [][ /\ (/\ clast' # clast /\ clast'.op \in {"likePost", "likeComment"}
          /\ clast'.code = 200 /\ ~Includes(clast'.before, clast'.me))
         => (/\ clast'.isLiked
             /\ clast'.likesCount = Len(clast'.before) + 1)
      /\ (/\ clast.op \in {"likePost", "likeComment"} /\ clast.code = 200
          /\ ~Includes(clast.before, clast.me)
          /\ clast' # clast /\ clast'.op = clast.op /\ clast'.code = 200
          /\ clast'.me = clast.me /\ clast'.id = clast.id)
         => (/\ ~clast'.isLiked
             /\ clast'.likesCount = Len(clast.before)
             /\ LikesOf(pmeta', comments', clast'.op, clast'.id) = clast.before) ]_vars

\* a user's second toggle on a comment others like has just restored its likes
C14_Witness ==
  /\ clast.op = "likeComment" /\ clast.code = 200 /\ ~clast.isLiked
  /\ clast.likesCount > 0
  /\ comments[clast.id].likes # clast.before
  /\ Len(clast.before) = clast.likesCount + 1
  /\ clast.before[Len(clast.before)] = clast.me

(* ------------------------------- listing ------------------------------- *)
\* C15: no listing by GET /api/posts or GET /api/posts/user/:userId, with
\* any query parameters, returns a post whose status is scheduled.
C15_ScheduledNeverListed ==
  [][ \A s \in Slots :
        (/\ running[s].op \in {"list", "listUser"}
         /\ running[s].pc = "find" /\ running'[s].pc = "count")
        => \A id \in running'[s].doc : posts[id].status # "scheduled" ]_vars

(* -------------------------- update and delete --------------------------- *)
Stored == <<posts, pmeta, comments>>

\* C16: an update or a delete of a post changes something only when the
\* caller is the post's author or an admin; for any other caller of an
\* existing post the response is 403 and the post and its comments are as
\* before.
C16_OnlyAuthorOrAdmin ==
  [][ /\ (/\ clast' # clast /\ clast'.op \in {"update", "delete"}
          /\ PostExists(clast'.id)
          /\ pmeta[clast'.id].author # clast'.me
          /\ clast'.me \notin Admins
          /\ clast'.code # 400)
         => (clast'.code = 403 /\ Stored' = Stored)
      /\ \A s \in Slots :
           (/\ running[s].op \in {"update", "delete"}
            /\ running'[s] # running[s]
            /\ Stored' # Stored)
           => (\/ pmeta[running[s].id].author = running[s].me
               \/ running[s].me \in Admins) ]_vars

\* a user who is neither the author nor an admin has just been refused the
\* delete of a post that has a comment
C16_Witness ==
  /\ clast.op = "delete" /\ clast.code = 403
  /\ PostExists(clast.id)
  /\ \E c \in 1..Len(comments) : comments[c].post = clast.id /\ comments[c].exists

\* C17: after a successful delete of post p, p does not exist and no comment
\* with post = p exists, and every other post and every comment of another
\* post is as before.
C17_DeleteCascades ==
  [][ /\ (clast' # clast /\ clast'.op = "delete" /\ clast'.code = 200) =>
           /\ ~(pmeta'[clast'.id].exists)
           /\ posts'[clast'.id] = Deleted
           /\ \A c \in 1..Len(comments') :
                comments'[c].post = clast'.id => ~comments'[c].exists
      /\ \A s \in Slots :
           (running[s].op = "delete" /\ running'[s] # running[s]) =>
             /\ Len(comments') = Len(comments)
             /\ \A c \in 1..Len(comments) :
                  comments[c].post # running[s].id => comments'[c] = comments[c]
             /\ Len(posts') = Len(posts)
             /\ \A id \in 1..Len(posts) :
                  id # running[s].id
                    => (posts'[id] = posts[id] /\ pmeta'[id] = pmeta[id]) ]_vars

\* a post with a comment has just been deleted while another post and its
\* comment remain
C17_Witness ==
  /\ clast.op = "delete" /\ clast.code = 200
  /\ \E c, d \in 1..Len(comments) :
       /\ comments[c].post = clast.id /\ ~comments[c].exists
       /\ comments[d].post # clast.id /\ comments[d].exists
       /\ PostExists(comments[d].post)

(* -------------------------------- views -------------------------------- *)
\* C19: the views of a post never go down, whatever single-post reads,
\* updates by its author or an admin, likes and scheduled publishing happen.
C19_ViewsMonotonic ==
  [][ \A id \in 1..Len(pmeta) :
        (pmeta[id].exists /\ pmeta'[id].exists)
          => pmeta'[id].views >= pmeta[id].views ]_vars

(* ----------------------- requests between friends ----------------------- *)
\* C25: after any sequence of send, accept, reject, cancel and remove
\* requests no user's friendRequests holds a pending entry from a user who
\* is in that user's friends list.
C25_NoPendingFromFriend ==
  \A u \in Users, v \in Users :
    (Quiet /\ Includes(friends[u], v)) => ~PendingFrom(friendRequests[u], v)

(* --------------------- listings of the friends router ------------------ *)
\* C22: the sent-requests listing for U returns exactly the users whose
\* friendRequests hold a single entry from U whose status is pending; a
\* user whose only entry from U is rejected is not returned.
C22_SentListsPendingOnly ==
  [][ (flisted' # flisted /\ flisted'.op = "sent") =>
        flisted'.users =
          {u \in Users :
             /\ CountFrom(friendRequests[u], flisted'.me) = 1
             /\ PendingFrom(friendRequests[u], flisted'.me)} ]_vars

\* C23: the suggestions listing for U returns only users other than U who
\* are not in U.friends, and every such user with a pending request from U
\* or to U is among them.
C23_SuggestionsKeepPending ==
  [][ (flisted' # flisted /\ flisted'.op = "suggestions") =>
        /\ \A u \in flisted'.users :
             u # flisted'.me /\ ~Includes(friends[flisted'.me], u)
        /\ \A u \in Users :
             (/\ u # flisted'.me /\ ~Includes(friends[flisted'.me], u)
              /\ (\/ PendingFrom(friendRequests[u], flisted'.me)
                  \/ PendingFrom(friendRequests[flisted'.me], u)))
               => u \in flisted'.users ]_vars

\* a listing for a user with a friend has returned a user who holds a
\* pending request of the caller and none of the caller's friends
C23_Witness ==
  /\ flisted.op = "suggestions"
  /\ friends[flisted.me] # <<>>
  /\ \A u \in flisted.users : ~Includes(friends[flisted.me], u)
  /\ \E u \in flisted.users : PendingFrom(friendRequests[u], flisted.me)

(* --------------------------- scheduled posts ---------------------------- *)
\* C21: after any creates and updates, every post whose status is scheduled
\* has a scheduledFor timestamp.
C21_ScheduledHasDate ==
  \A id \in 1..Len(posts) :
    (pmeta[id].exists /\ posts[id].status = "scheduled")
      => posts[id].scheduledFor # NoDate

(* ------------------------------ session check -------------------------- *)
\* C24: in a session check whose /me succeeds and whose refresh fails with
\* any status, the token and the Authorization header are kept and the user
\* stays logged in; a check clears the token only when /me fails with 401,
\* and a failure of /me with another status leaves the token in place.
C24_RefreshFailureKeepsToken ==
  [][ (client' # client /\ client'.op = "check") =>
        /\ (client'.me = 200 /\ client'.refresh # 200)
           => (/\ client'.token = client.token
               /\ client'.header = client.header
               /\ client'.user = client.user)
        /\ (client.token # "none" /\ client'.token = "none") => client'.me = 401
        /\ client'.me \notin {200, 401} => client'.token = client.token ]_vars

(* ------------------------- publisher and author ------------------------ *)
\* C27: a save of the publisher writes published only to a post that is
\* still scheduled with scheduledFor <= now at that save; a post its author
\* has made a draft, or moved to a later date, after the query of the tick is
\* not published by that tick.
C27_PublishesOnlyStillDue ==
  [][ (pub["A"].pc = "loop" /\ pub' # pub /\ posts' # posts) =>
        LET id == pub["A"].selected[pub["A"].i] IN
          /\ posts[id].status = "scheduled"
          /\ posts[id].scheduledFor # NoDate
          /\ posts[id].scheduledFor <= now ]_vars

(* --------------------- concurrent friend requests ----------------------- *)
\* C26: with accept and remove handlers interleaving at their database
\* awaits and every save succeeding, the friends arrays are symmetric in
\* every state in which no handler is in flight.
C26_SymmetricWhenQuiet ==
  (\A s \in Slots : running[s].pc = "idle" /\ ~running[s].failed) =>
    \A u \in Users, v \in Users : Includes(friends[u], v) <=> Includes(friends[v], u)

\* C28: no friends array holds an id twice and no friendRequests array holds
\* two entries from one requester, also when two identical accept or send
\* requests are handled at the same time.
C28_NoDuplicates ==
  \A u \in Users, v \in Users :
    /\ Cardinality({i \in 1..Len(friends[u]) : friends[u][i] = v}) <= 1
    /\ CountFrom(friendRequests[u], v) <= 1

(* ---------------------------- concurrent likes -------------------------- *)
\* C29: a user appears at most once in the likes of a comment, also when two
\* like requests of that user read the comment before either saves; and a
\* toggle that answers isLiked = false leaves the user absent from likes.
C29_LikedAtMostOnce ==
  [][ /\ \A c \in 1..Len(comments'), u \in Users :
           Cardinality({i \in 1..Len(comments'[c].likes) :
                          comments'[c].likes[i] = u}) <= 1
      /\ (/\ clast' # clast
          /\ clast'.op = "likeComment"
          /\ clast'.code = 200
          /\ ~clast'.isLiked)
         => ~Includes(comments'[clast'.id].likes, clast'.me) ]_vars

(* ----------------------- comments of deleted posts ---------------------- *)
\* C30: no stored comment refers to a deleted post, also when add comment
\* (existence check, then create) interleaves with delete post (delete the
\* comments, then the post); checked whenever no request is in flight.
C30_NoOrphanComment ==
  (\A s \in Slots : running[s].pc = "idle") =>
    \A c \in 1..Len(comments) :
      comments[c].exists => pmeta[comments[c].post].exists

=============================================================================
